---- MODULE Spec2Model ----
(***************************************************************************)
(* A model of abieos.hpp: the ABI type graph (get_type, fill_struct,       *)
(* create_contract), the JSON-to-binary engine (json_to_bin) and the       *)
(* binary-to-JSON engine (bin_to_json).                                    *)
(*                                                                         *)
(* Strings are sequences of character codes, so that std::string           *)
(* comparison (the key order of std::map), ends_with and substr are        *)
(* computed as the code computes them.  A pointer to an abi_type is the    *)
(* key of the node in contract::abi_types (std::map nodes never move).     *)
(*                                                                         *)
(* A call that can throw is written  rest(call(...))  with a local         *)
(* operator rest(r) for what the code does with the call's result r: the   *)
(* exception (r.err) passes through, and the state the call changed before *)
(* it threw stays changed.                                                 *)
(***************************************************************************)
EXTENDS Integers, Sequences, FiniteSets, TLC

-----------------------------------------------------------------------------
(* Strings used by the code and by the inputs of the model *)
n_uint8 == <<117, 105, 110, 116, 56>>  \* "uint8"
n_uint32 == <<117, 105, 110, 116, 51, 50>>  \* "uint32"
n_name == <<110, 97, 109, 101>>  \* "name"
n_string == <<115, 116, 114, 105, 110, 103>>  \* "string"
n_asset == <<97, 115, 115, 101, 116>>  \* "asset"
n_extended_asset == <<101, 120, 116, 101, 110, 100, 101, 100, 95, 97, 115, 115, 101, 116>>  \* "extended_asset"
n_quantity == <<113, 117, 97, 110, 116, 105, 116, 121>>  \* "quantity"
n_contract == <<99, 111, 110, 116, 114, 97, 99, 116>>  \* "contract"
suffix_optional == <<63>>  \* "?"
suffix_array == <<91, 93>>  \* "[]"

-----------------------------------------------------------------------------
(* std::string helpers *)

\* operator< of std::string: lexicographic order on the character codes.
RECURSIVE StrLess(_, _)
StrLess(s, t) ==
    IF t = <<>> THEN FALSE
    ELSE IF s = <<>> THEN TRUE
    ELSE IF Head(s) # Head(t) THEN Head(s) < Head(t)
    ELSE StrLess(Tail(s), Tail(t))

ends_with(s, suffix) ==
    /\ Len(s) >= Len(suffix)
    /\ SubSeq(s, Len(s) - Len(suffix) + 1, Len(s)) = suffix

\* s.substr(0, s.size() - n)
DropLast(s, n) == SubSeq(s, 1, Len(s) - n)

-----------------------------------------------------------------------------
(* abi handling: the type graph *)

\* The null pointer.  No abi_type is ever stored under the empty name
\* (create_contract rejects empty names and get_type does not find "").
NULL == <<>>

\* A null abi_serializer pointer.
NoSer == "nullptr"

\* A null struct_def pointer.
NoStructDef == [name |-> <<>>, base |-> <<>>, fields |-> <<>>]

\* abi_type{name}: the name set, everything else value-initialised.
abi_type(name) ==
    [name |-> name, alias_of_name |-> <<>>, struct_def |-> NoStructDef,
     alias_of |-> NULL, optional_of |-> NULL, array_of |-> NULL, base |-> NULL,
     fields |-> <<>>, filled_struct |-> FALSE, ser |-> NoSer]

abi_field(name, type) == [name |-> name, type |-> type]

\* std::map operator[] / insert of one node.
MapPut(m, k, v) == (k :> v) @@ m

EmptyMap == [x \in {} |-> abi_type(<<>>)]

NoError == [what |-> "", arg |-> <<>>]

IsError(e) == e.what # ""

\* The outcome of a call that works on the type map: the exception thrown (if
\* any), the map as the call left it, and the node returned.
Outcome(err, types, res) == [err |-> err, types |-> types, res |-> res]

Throw(what, arg, types) == Outcome([what |-> what, arg |-> arg], types, NULL)

\* The depth at which get_type and fill_struct give up.
abi_recursion_limit == 32

\* A nesting test that looks at optional_of only.
NestedOptionalOnly(t) == t.optional_of # NULL

\* type.optional_of->optional_of || type.optional_of->array_of, and the same
\* test on type.array_of.
IsNested(t) == t.optional_of # NULL \/ t.array_of # NULL

\* A call of get_type makes one recursive call at most and changes the map
\* only after that call has returned.  get_type_calls is the chain of calls
\* made for `name`, outermost first, each with the branch it takes: every
\* call but the last waits for the next one ("optional", "array": the name is
\* not in the map and has the suffix; "alias": an alias not resolved yet), and
\* the last one returns or throws without calling.
RECURSIVE get_type_calls(_, _, _)
get_type_calls(abi_types, name, depth) ==
    CASE depth >= abi_recursion_limit ->
             <<[name |-> name, branch |-> "limit"]>>
      [] /\ depth < abi_recursion_limit
         /\ name \notin DOMAIN abi_types
         /\ ends_with(name, suffix_optional) ->
             <<[name |-> name, branch |-> "optional"]>>
             \o get_type_calls(abi_types, DropLast(name, 1), depth + 1)
      [] /\ depth < abi_recursion_limit
         /\ name \notin DOMAIN abi_types
         /\ ~ends_with(name, suffix_optional)
         /\ ends_with(name, suffix_array) ->
             <<[name |-> name, branch |-> "array"]>>
             \o get_type_calls(abi_types, DropLast(name, 2), depth + 1)
      [] /\ depth < abi_recursion_limit
         /\ name \notin DOMAIN abi_types
         /\ ~ends_with(name, suffix_optional)
         /\ ~ends_with(name, suffix_array) ->
             <<[name |-> name, branch |-> "unknown"]>>
      [] /\ depth < abi_recursion_limit
         /\ name \in DOMAIN abi_types
         /\ abi_types[name].alias_of # NULL ->
             <<[name |-> name, branch |-> "resolved"]>>
      [] /\ depth < abi_recursion_limit
         /\ name \in DOMAIN abi_types
         /\ abi_types[name].alias_of = NULL
         /\ abi_types[name].alias_of_name = <<>> ->
             <<[name |-> name, branch |-> "found"]>>
      [] /\ depth < abi_recursion_limit
         /\ name \in DOMAIN abi_types
         /\ abi_types[name].alias_of = NULL
         /\ abi_types[name].alias_of_name # <<>> ->
             <<[name |-> name, branch |-> "alias"]>>
             \o get_type_calls(abi_types, abi_types[name].alias_of_name, depth + 1)

\* abi_types[name] = std::move(type), unless the inner type r.res is itself
\* an optional or an array.
get_type_pseudo(name, of, ser, r) ==
    IF IsNested(r.types[r.res])
    THEN Throw("optional and array don't support nesting", <<>>, r.types)
    ELSE Outcome(NoError,
                 MapPut(r.types, name,
                        [abi_type(name) EXCEPT ![of] = r.res, !.ser = ser]),
                 name)

\* get_type with a last line that returns the alias itself (return it->second)
\* in place of the node the alias stands for.
get_type_return_alias_itself(call, r) ==
    CASE call.branch = "limit" ->
             Throw("abi recursion limit reached", <<>>, r.types)
      [] call.branch = "unknown" -> Throw("unknown type", call.name, r.types)
      [] call.branch = "resolved" ->
             Outcome(NoError, r.types, r.types[call.name].alias_of)
      [] call.branch = "found" -> Outcome(NoError, r.types, call.name)
      [] call.branch = "optional" ->
             get_type_pseudo(call.name, "optional_of", "pseudo_optional", r)
      [] call.branch = "array" ->
             get_type_pseudo(call.name, "array_of", "pseudo_array", r)
      [] call.branch = "alias" ->
             Outcome(NoError, [r.types EXCEPT ![call.name].alias_of = r.res], call.name)

\* The rest of one call of get_type: r is the map as the call finds it and,
\* for a call that waited, the node the call it made has returned.
get_type_return(call, r) ==
    CASE call.branch = "limit" ->
             Throw("abi recursion limit reached", <<>>, r.types)
      [] call.branch = "unknown" -> Throw("unknown type", call.name, r.types)
      [] call.branch = "resolved" ->
             Outcome(NoError, r.types, r.types[call.name].alias_of)
      [] call.branch = "found" -> Outcome(NoError, r.types, call.name)
      [] call.branch = "optional" ->
             get_type_pseudo(call.name, "optional_of", "pseudo_optional", r)
      [] call.branch = "array" ->
             get_type_pseudo(call.name, "array_of", "pseudo_array", r)
      \* it->second.alias_of = &other; return other;
      [] call.branch = "alias" ->
             Outcome(NoError, [r.types EXCEPT ![call.name].alias_of = r.res], r.res)

\* The calls return innermost first; an exception passes through every call
\* that is waiting.
RECURSIVE get_type_returns(_, _, _)
get_type_returns(calls, i, r) ==
    CASE i = 0 \/ r.err.what # "" -> r
      [] OTHER -> get_type_returns(calls, i - 1, get_type_return(calls[i], r))

get_type(abi_types, name, depth) ==
    LET returns(calls) ==
            get_type_returns(calls, Len(calls), Outcome(NoError, abi_types, NULL))
    IN  returns(get_type_calls(abi_types, name, depth))

\* The loop of fill_struct over struct_def->fields, from field i on.
RECURSIVE fill_fields(_, _, _, _, _)
fill_fields(abi_types, type, def_fields, i, depth) ==
    LET push_back(r) ==
            IF IsError(r.err) THEN r
            ELSE fill_fields([r.types EXCEPT ![type].fields =
                                  Append(@, abi_field(def_fields[i].name, r.res))],
                             type, def_fields, i + 1, depth)
    IN  IF i > Len(def_fields) THEN Outcome(NoError, abi_types, type)
        ELSE push_back(get_type(abi_types, def_fields[i].type, depth + 1))

\* A call of fill_struct makes one recursive call at most, for the base, and
\* changes the struct only after that call has returned.  fill_struct_calls
\* is the chain of calls made for `type`, outermost first, each with the
\* branch it takes and the map as it finds it (for "base": as the get_type
\* of the base left it).
RECURSIVE fill_struct_calls(_, _, _)
fill_struct_calls(abi_types, type, depth) ==
    LET call(branch, types) ==
            [type |-> type, branch |-> branch, types |-> types, err |-> NoError]
        base(g) ==
            IF IsError(g.err) THEN <<[call("get_type", g.types) EXCEPT !.err = g.err]>>
            ELSE <<call("base", g.types)>> \o fill_struct_calls(g.types, g.res, depth + 1)
    IN  IF depth >= abi_recursion_limit THEN <<call("limit", abi_types)>>
        ELSE IF abi_types[type].filled_struct THEN <<call("filled", abi_types)>>
        ELSE IF abi_types[type].struct_def = NoStructDef
        THEN <<call("no struct", abi_types)>>
        ELSE IF abi_types[type].struct_def.base = <<>> THEN <<call("fields", abi_types)>>
        ELSE base(get_type(abi_types, abi_types[type].struct_def.base, depth + 1))

\* fill_struct_calls without `if (type.filled_struct) return type;`
RECURSIVE fill_struct_calls_again(_, _, _)
fill_struct_calls_again(abi_types, type, depth) ==
    LET call(branch, types) ==
            [type |-> type, branch |-> branch, types |-> types, err |-> NoError]
        base(g) ==
            IF IsError(g.err) THEN <<[call("get_type", g.types) EXCEPT !.err = g.err]>>
            ELSE <<call("base", g.types)>>
                 \o fill_struct_calls_again(g.types, g.res, depth + 1)
    IN  IF depth >= abi_recursion_limit THEN <<call("limit", abi_types)>>
        ELSE IF abi_types[type].struct_def = NoStructDef
        THEN <<call("no struct", abi_types)>>
        ELSE IF abi_types[type].struct_def.base = <<>> THEN <<call("fields", abi_types)>>
        ELSE base(get_type(abi_types, abi_types[type].struct_def.base, depth + 1))

\* fill_struct_calls with type.filled_struct = true set before the base is
\* filled
RECURSIVE fill_struct_calls_marks_first(_, _, _)
fill_struct_calls_marks_first(abi_types, type, depth) ==
    LET call(branch, types) ==
            [type |-> type, branch |-> branch, types |-> types, err |-> NoError]
        marked == [abi_types EXCEPT ![type].filled_struct = TRUE]
        base(g) ==
            IF IsError(g.err) THEN <<[call("get_type", g.types) EXCEPT !.err = g.err]>>
            ELSE <<call("base", g.types)>>
                 \o fill_struct_calls_marks_first(g.types, g.res, depth + 1)
    IN  IF depth >= abi_recursion_limit THEN <<call("limit", abi_types)>>
        ELSE IF abi_types[type].filled_struct THEN <<call("filled", abi_types)>>
        ELSE IF abi_types[type].struct_def = NoStructDef
        THEN <<call("no struct", abi_types)>>
        ELSE IF abi_types[type].struct_def.base = <<>> THEN <<call("fields", marked)>>
        ELSE base(get_type(marked, abi_types[type].struct_def.base, depth + 1))

\* The rest of one call of fill_struct: r is the outcome of the call it made
\* for the base, or the map as the call found it when it made none.
fill_struct_return(call, depth, r) ==
    LET type == call.type
        filled(f) ==
            IF IsError(f.err) THEN f
            ELSE Outcome(NoError, [f.types EXCEPT ![type].filled_struct = TRUE], type)
        own_fields(types) ==
            filled(fill_fields(types, type, types[type].struct_def.fields, 1, depth))
    IN  CASE call.branch = "limit" ->
                 Throw("abi recursion limit reached", <<>>, r.types)
          [] call.branch = "filled" -> Outcome(NoError, r.types, type)
          [] call.branch = "no struct" -> Throw("is not a struct", type, r.types)
          [] call.branch = "get_type" -> Outcome(call.err, r.types, NULL)
          [] call.branch = "fields" -> own_fields(r.types)
          \* type.fields = fill_struct(...).fields
          [] call.branch = "base" ->
                 own_fields([r.types EXCEPT ![type].fields = r.types[r.res].fields])

\* The calls return innermost first; an exception passes through every call
\* that is waiting.
RECURSIVE fill_struct_returns(_, _, _, _)
fill_struct_returns(calls, i, depth, r) ==
    CASE i = 0 \/ r.err.what # "" -> r
      [] OTHER -> fill_struct_returns(calls, i - 1, depth,
                                      fill_struct_return(calls[i], depth + i - 1, r))

\* fill_struct without `if (type.filled_struct) return type;`
fill_struct_again(abi_types, type, depth) ==
    LET returns(calls) ==
            fill_struct_returns(calls, Len(calls), depth,
                                Outcome(NoError, calls[Len(calls)].types, NULL))
    IN  returns(fill_struct_calls_again(abi_types, type, depth))

\* fill_struct with type.filled_struct = true set before the base is filled:
\* a mutant
fill_struct_marks_first(abi_types, type, depth) ==
    LET returns(calls) ==
            fill_struct_returns(calls, Len(calls), depth,
                                Outcome(NoError, calls[Len(calls)].types, NULL))
    IN  returns(fill_struct_calls_marks_first(abi_types, type, depth))

fill_struct(abi_types, type, depth) ==
    LET returns(calls) ==
            fill_struct_returns(calls, Len(calls), depth,
                                Outcome(NoError, calls[Len(calls)].types, NULL))
    IN  returns(fill_struct_calls(abi_types, type, depth))

\* The built-in types, each with the serializer for_each_abi_type pairs it with.
for_each_abi_type ==
    <<<<<<98, 111, 111, 108>>, "bool">>,
      <<<<105, 110, 116, 56>>, "int8">>,
      <<n_uint8, "uint8">>,
      <<<<105, 110, 116, 49, 54>>, "int16">>,
      <<<<117, 105, 110, 116, 49, 54>>, "uint16">>,
      <<<<105, 110, 116, 51, 50>>, "int32">>,
      <<n_uint32, "uint32">>,
      <<<<105, 110, 116, 54, 52>>, "int64">>,
      <<<<117, 105, 110, 116, 54, 52>>, "uint64">>,
      <<<<105, 110, 116, 49, 50, 56>>, "int128">>,
      <<<<117, 105, 110, 116, 49, 50, 56>>, "uint128">>,
      <<<<118, 97, 114, 117, 105, 110, 116, 51, 50>>, "varuint32">>,
      <<<<118, 97, 114, 105, 110, 116, 51, 50>>, "varint32">>,
      <<<<102, 108, 111, 97, 116, 51, 50>>, "float32">>,
      <<<<102, 108, 111, 97, 116, 54, 52>>, "float64">>,
      <<<<102, 108, 111, 97, 116, 49, 50, 56>>, "float128">>,
      <<<<116, 105, 109, 101, 95, 112, 111, 105, 110, 116>>, "time_point">>,
      <<<<116, 105, 109, 101, 95, 112, 111, 105, 110, 116, 95, 115, 101, 99>>,
        "time_point_sec">>,
      <<<<98, 108, 111, 99, 107, 95, 116, 105, 109, 101, 115, 116, 97, 109, 112, 95,
          116, 121, 112, 101>>, "block_timestamp_type">>,
      <<n_name, "name">>,
      <<<<98, 121, 116, 101, 115>>, "bytes">>,
      <<n_string, "string">>,
      <<<<99, 104, 101, 99, 107, 115, 117, 109, 49, 54, 48>>, "checksum160">>,
      <<<<99, 104, 101, 99, 107, 115, 117, 109, 50, 53, 54>>, "checksum256">>,
      <<<<99, 104, 101, 99, 107, 115, 117, 109, 53, 49, 50>>, "checksum512">>,
      <<<<112, 117, 98, 108, 105, 99, 95, 107, 101, 121>>, "public_key">>,
      <<<<112, 114, 105, 118, 97, 116, 101, 95, 107, 101, 121>>, "private_key">>,
      <<<<115, 105, 103, 110, 97, 116, 117, 114, 101>>, "signature">>,
      <<<<115, 121, 109, 98, 111, 108>>, "symbol">>,
      <<<<115, 121, 109, 98, 111, 108, 95, 99, 111, 100, 101>>, "symbol_code">>,
      <<n_asset, "asset">>>>

\* An abi_def as create_contract reads it: the type_defs and the struct_defs.
type_def(new_type_name, type) == [new_type_name |-> new_type_name, type |-> type]

struct_def(name, base, fields) == [name |-> name, base |-> base, fields |-> fields]

field_def(name, type) == [name |-> name, type |-> type]

abi_def(types, structs) == [types |-> types, structs |-> structs]

\* The first key of a non-empty set of keys, in the order std::map keeps them.
MinKey(keys) == CHOOSE k \in keys : \A other \in keys : ~StrLess(other, k)

\* The map after the built-in types and extended_asset were inserted.
builtin_types ==
    LET builtin == [i \in DOMAIN for_each_abi_type |->
                       [abi_type(for_each_abi_type[i][1]) EXCEPT
                            !.ser = for_each_abi_type[i][2]]]
        inserted == [n \in {builtin[i].name : i \in DOMAIN builtin} |->
                        builtin[CHOOSE i \in DOMAIN builtin : builtin[i].name = n]]
        extended_asset(quantity, contract) ==
            MapPut(contract.types, n_extended_asset,
                   [abi_type(n_extended_asset) EXCEPT
                        !.fields = <<abi_field(n_quantity, quantity.res),
                                     abi_field(n_contract, contract.res)>>,
                        !.filled_struct = TRUE,
                        !.ser = "pseudo_object"])
        with_quantity(quantity) ==
            extended_asset(quantity, get_type(quantity.types, n_name, 0))
    IN  with_quantity(get_type(inserted, n_asset, 0))

RECURSIVE insert_type_defs(_, _, _)

\* for (auto& t : abi.types) with c.abi_types[t.new_type_name] = ... in place
\* of insert: a definition replaces the one the map holds.
insert_type_defs_assign(abi_types, defs, i) ==
    IF i > Len(defs) THEN Outcome(NoError, abi_types, NULL)
    ELSE IF defs[i].new_type_name = <<>>
    THEN Throw("abi has a type with a missing name", <<>>, abi_types)
    ELSE insert_type_defs(
             MapPut(abi_types, defs[i].new_type_name,
                    [abi_type(defs[i].new_type_name) EXCEPT
                         !.alias_of_name = defs[i].type]),
             defs, i + 1)

\* for (auto& t : abi.types), from type_def i on.
insert_type_defs(abi_types, defs, i) ==
    IF i > Len(defs) THEN Outcome(NoError, abi_types, NULL)
    ELSE IF defs[i].new_type_name = <<>>
    THEN Throw("abi has a type with a missing name", <<>>, abi_types)
    ELSE IF defs[i].new_type_name \in DOMAIN abi_types
    THEN Throw("abi redefines type", defs[i].new_type_name, abi_types)
    ELSE insert_type_defs(
             MapPut(abi_types, defs[i].new_type_name,
                    [abi_type(defs[i].new_type_name) EXCEPT
                         !.alias_of_name = defs[i].type]),
             defs, i + 1)

\* for (auto& s : abi.structs), from struct_def i on.
RECURSIVE insert_struct_defs(_, _, _)
insert_struct_defs(abi_types, defs, i) ==
    IF i > Len(defs) THEN Outcome(NoError, abi_types, NULL)
    ELSE IF defs[i].name = <<>>
    THEN Throw("abi has a struct with a missing name", <<>>, abi_types)
    ELSE IF defs[i].name \in DOMAIN abi_types
    THEN Throw("abi redefines type", defs[i].name, abi_types)
    ELSE insert_struct_defs(
             MapPut(abi_types, defs[i].name,
                    [abi_type(defs[i].name) EXCEPT !.struct_def = defs[i],
                                                   !.ser = "pseudo_object"]),
             defs, i + 1)

\* The nodes a loop over the map still has to visit after the node at key
\* `after` (NULL: the loop has not started).  The loops of create_contract
\* act on aliases and on structs only, and get_type inserts neither, so the
\* nodes it adds while a loop runs are passed over.
AliasKeys(abi_types, after) ==
    {k \in DOMAIN abi_types :
        abi_types[k].alias_of_name # <<>> /\ (after = NULL \/ StrLess(after, k))}

StructKeys(abi_types, after) ==
    {k \in DOMAIN abi_types :
        abi_types[k].struct_def # NoStructDef /\ (after = NULL \/ StrLess(after, k))}

\* for (auto& [_, t] : c.abi_types) if (!t.alias_of_name.empty())
\*     t.alias_of = &get_type(c.abi_types, t.alias_of_name, 0);
\* r is the outcome of the loop so far, `after` the key it has visited last.
RECURSIVE resolve_aliases(_, _)
resolve_aliases(r, after) ==
    LET keys == AliasKeys(r.types, after)
        k == MinKey(keys)
        assign(a) ==
            IF a.err.what # "" THEN a
            ELSE Outcome(NoError, [a.types EXCEPT ![k].alias_of = a.res], NULL)
    IN  CASE r.err.what # "" -> r
          [] r.err.what = "" /\ keys = {} -> r
          [] OTHER ->
                 resolve_aliases(
                     assign(get_type(r.types, r.types[k].alias_of_name, 0)), k)

\* for (auto& [_, t] : c.abi_types) if (t.struct_def) fill_struct(...)
RECURSIVE fill_structs(_, _)
fill_structs(r, after) ==
    LET keys == StructKeys(r.types, after)
        k == MinKey(keys)
    IN  CASE r.err.what # "" -> r
          [] r.err.what = "" /\ keys = {} -> r
          [] OTHER -> fill_structs(fill_struct(r.types, k, 0), k)

\* for (auto& [_, t] : c.abi_types) t.struct_def = nullptr;
clear_struct_defs(abi_types) ==
    [k \in DOMAIN abi_types |-> [abi_types[k] EXCEPT !.struct_def = NoStructDef]]

create_contract(abi) ==
    LET cleared(r) ==
            IF IsError(r.err) THEN r
            ELSE Outcome(NoError, clear_struct_defs(r.types), NULL)
        filled(r) ==
            IF IsError(r.err) THEN r ELSE cleared(fill_structs(r, NULL))
        resolved(r) ==
            IF IsError(r.err) THEN r ELSE filled(resolve_aliases(r, NULL))
        typed(r) ==
            IF IsError(r.err) THEN r
            ELSE resolved(insert_struct_defs(r.types, abi.structs, 1))
    IN  typed(insert_type_defs(builtin_types, abi.types, 1))

-----------------------------------------------------------------------------
(* Numbers.  An unsigned integer is kept as the sequence of its base-256  *)
(* digits, least significant first and without high zero digits, so that  *)
(* 64-bit values are exact; its little-endian memory image of n bytes is   *)
(* the same sequence padded with zero bytes.                               *)

IsDigit(c) == c \in 48..57

\* isspace in the "C" locale
IsSpace(c) == c \in {9, 10, 11, 12, 13, 32}

\* bytes * m + carry
RECURSIVE MulAdd(_, _, _)
MulAdd(bytes, m, carry) ==
    IF bytes = <<>>
    THEN IF carry = 0 THEN <<>> ELSE <<carry % 256>> \o MulAdd(<<>>, m, carry \div 256)
    ELSE <<(Head(bytes) * m + carry) % 256>>
             \o MulAdd(Tail(bytes), m, (Head(bytes) * m + carry) \div 256)

\* The value of a sequence of decimal digit characters.
RECURSIVE DecValue(_, _)
DecValue(digits, acc) ==
    IF digits = <<>> THEN acc
    ELSE DecValue(Tail(digits), MulAdd(acc, 10, Head(digits) - 48))

RECURSIVE LeadingDigits(_)
LeadingDigits(s) ==
    IF s = <<>> \/ ~IsDigit(Head(s)) THEN <<>>
    ELSE <<Head(s)>> \o LeadingDigits(Tail(s))

RECURSIVE SkipSpace(_)
SkipSpace(s) == IF s # <<>> /\ IsSpace(Head(s)) THEN SkipSpace(Tail(s)) ELSE s

\* What strtoull / strtoll read of s in base 10: the sign and the magnitude
\* of the longest prefix that is a number; ok is false when there is none.
ScanNumber(s) ==
    LET signed(t) == t # <<>> /\ Head(t) \in {43, 45}
        scan(t, digits) ==
            [ok |-> digits # <<>>,
             negative |-> signed(t) /\ Head(t) = 45,
             magnitude |-> DecValue(digits, <<>>)]
        after_space(t) == scan(t, LeadingDigits(IF signed(t) THEN Tail(t) ELSE t))
    IN  after_space(SkipSpace(s))

\* The memory image of n bytes of an unsigned value that fits.
RECURSIVE Pad(_, _)
Pad(bytes, n) == IF Len(bytes) >= n THEN bytes ELSE Pad(Append(bytes, 0), n)

\* Two's complement negation of an n-byte image.
RECURSIVE AddOne(_)
AddOne(bytes) ==
    IF bytes = <<>> THEN <<>>
    ELSE IF Head(bytes) = 255 THEN <<0>> \o AddOne(Tail(bytes))
    ELSE <<Head(bytes) + 1>> \o Tail(bytes)

Negate(bytes) == AddOne([i \in DOMAIN bytes |-> 255 - bytes[i]])

\* magnitude <= 2^(8n-1) - 1, respectively magnitude <= 2^(8n-1)
FitsPositive(magnitude, n) ==
    Len(magnitude) < n \/ (Len(magnitude) = n /\ magnitude[n] < 128)

FitsNegative(magnitude, n) ==
    \/ Len(magnitude) < n
    \/ /\ Len(magnitude) = n
       /\ \/ magnitude[n] < 128
          \/ magnitude[n] = 128 /\ \A i \in 1..(n - 1) : magnitude[i] = 0

\* Division of a big-endian digit sequence by 10: quotient digits and remainder.
RECURSIVE DivTen(_, _)
DivTen(be, rem) ==
    IF be = <<>> THEN [q |-> <<>>, r |-> rem]
    ELSE LET cons(rest) == [q |-> <<(rem * 256 + Head(be)) \div 10>> \o rest.q,
                            r |-> rest.r]
         IN  cons(DivTen(Tail(be), (rem * 256 + Head(be)) % 10))

Reverse(s) == [i \in DOMAIN s |-> s[Len(s) + 1 - i]]

IsZero(bytes) == \A i \in DOMAIN bytes : bytes[i] = 0

\* The decimal digits of an unsigned value, as std::to_string and the JSON
\* writer print them.
RECURSIVE DecDigits(_)
DecDigits(be) ==
    IF IsZero(be) THEN <<>>
    ELSE LET digit(d) == Append(DecDigits(d.q), 48 + d.r) IN digit(DivTen(be, 0))

to_string_unsigned(bytes) ==
    IF IsZero(bytes) THEN <<48>> ELSE DecDigits(Reverse(bytes))

\* std::to_string and the writer for a signed value given as its n-byte image.
to_string_signed(bytes) ==
    (IF bytes[Len(bytes)] >= 128 THEN <<45>> ELSE <<>>)
        \o to_string_unsigned(IF bytes[Len(bytes)] >= 128 THEN Negate(bytes) ELSE bytes)

\* std::to_string(int) for the ints of a stack position.
to_string_int(i) ==
    IF i < 0 THEN <<45>> \o to_string_unsigned(<<-i>>) ELSE to_string_unsigned(<<i>>)

\* a & b for naturals
RECURSIVE BitAnd(_, _)
BitAnd(a, b) ==
    IF a = 0 \/ b = 0 THEN 0
    ELSE (a % 2) * (b % 2) + 2 * BitAnd(a \div 2, b \div 2)

\* a | b for two memory images of one size
BitOr(a, b) == [i \in DOMAIN a |-> a[i] + b[i] - BitAnd(a[i], b[i])]

\* An unsigned value without its high zero digits.
RECURSIVE Trim(_)
Trim(bytes) ==
    IF bytes # <<>> /\ bytes[Len(bytes)] = 0 THEN Trim(SubSeq(bytes, 1, Len(bytes) - 1))
    ELSE bytes

\* The conversion of an int that is not negative to an unsigned type that
\* holds it: size_t, int -> uint32_t.
RECURSIVE Unsigned(_)
Unsigned(n) == IF n = 0 THEN <<>> ELSE <<n % 256>> \o Unsigned(n \div 256)

\* value > n for an unsigned value and an int n (n = -1: any value is).
Exceeds(value, n) == \A m \in 0..n : Unsigned(m) # Trim(value)

\* The int an unsigned value is, for a value that does not exceed limit.
IntOf(value, limit) == CHOOSE m \in 0..limit : Unsigned(m) = Trim(value)

\* value >> n for an unsigned value, 0 < n < 8
ShiftRight(value, n) ==
    Trim([i \in DOMAIN value |->
             value[i] \div (2 ^ n)
                 + (IF i < Len(value) THEN (value[i + 1] % (2 ^ n)) * (2 ^ (8 - n))
                    ELSE 0)])

\* x << shift in an unsigned type of size bytes, for x < 256: the bits shifted
\* beyond the type are lost.
ShiftLeft(x, shift, size) ==
    [i \in 1..size |->
        IF i = shift \div 8 + 1 THEN (x * (2 ^ (shift % 8))) % 256
        ELSE IF i = shift \div 8 + 2 THEN (x * (2 ^ (shift % 8))) \div 256
        ELSE 0]

-----------------------------------------------------------------------------
(* name *)

\* char_to_symbol with (c - '1') for the digits: a mutant
char_to_symbol_digits_from_zero(c) ==
    IF c >= 97 /\ c <= 122 THEN (c - 97) + 6
    ELSE IF c >= 49 /\ c <= 53 THEN c - 49
    ELSE 0

char_to_symbol(c) ==
    IF c >= 97 /\ c <= 122 THEN (c - 97) + 6
    ELSE IF c >= 49 /\ c <= 53 THEN (c - 49) + 1
    ELSE 0

\* s.c_str() as a function reads it: the characters before the first NUL.
RECURSIVE c_str(_)
c_str(s) == IF s = <<>> \/ Head(s) = 0 THEN <<>> ELSE <<Head(s)>> \o c_str(Tail(s))

\* The loop of string_to_name, from character i on (i counts from 0), and the
\* statement after it; name is the uint64_t as its memory image.
RECURSIVE string_to_name_loop(_, _, _)
string_to_name_loop(str, i, name) ==
    IF i < Len(str) /\ i < 12
    THEN string_to_name_loop(
             str, i + 1,
             BitOr(name, ShiftLeft(char_to_symbol(str[i + 1]) % 32, 64 - 5 * (i + 1), 8)))
    ELSE IF i = 12
    THEN BitOr(name, ShiftLeft((IF Len(str) > 12 THEN char_to_symbol(str[13]) ELSE 0) % 16,
                               0, 8))
    ELSE name

\* string_to_name(const char* str)
string_to_name(str) == string_to_name_loop(str, 0, <<0, 0, 0, 0, 0, 0, 0, 0>>)

\* ".12345abcdefghijklmnopqrstuvwxyz"
charmap ==
    <<46, 49, 50, 51, 52, 53>> \o [i \in 1..26 |-> 96 + i]

RECURSIVE name_to_string_loop(_, _, _)

\* The loop of name_to_string with 0x1f and a shift of 5 at every i: a mutant
name_to_string_loop_five_bits(tmp, i, str) ==
    LET low == IF tmp = <<>> THEN 0 ELSE tmp[1] IN
    IF i > 12 THEN str
    ELSE name_to_string_loop(ShiftRight(tmp, 5), i + 1,
                             [str EXCEPT ![13 - i] = charmap[(low % 32) + 1]])

\* The loop of name_to_string, from i on: str is filled from its end.
name_to_string_loop(tmp, i, str) ==
    LET low == IF tmp = <<>> THEN 0 ELSE tmp[1] IN
    IF i > 12 THEN str
    ELSE name_to_string_loop(
             ShiftRight(tmp, IF i = 0 THEN 4 ELSE 5), i + 1,
             [str EXCEPT ![13 - i] = charmap[(low % (IF i = 0 THEN 16 ELSE 32)) + 1]])

\* str.find_last_not_of('.'): the index of the character counted from 1, and
\* 0 for npos.
RECURSIVE find_last_not_of_dot(_)
find_last_not_of_dot(str) ==
    IF str # <<>> /\ str[Len(str)] = 46
    THEN find_last_not_of_dot(SubSeq(str, 1, Len(str) - 1))
    ELSE Len(str)

\* name_to_string(uint64_t name), name given as its memory image
name_to_string(name) ==
    LET substr(str, last) == IF last # 0 THEN SubSeq(str, 1, last) ELSE str
        trimmed(str) == substr(str, find_last_not_of_dot(str))
    IN  trimmed(name_to_string_loop(Trim(name), 0, [i \in 1..13 |-> 46]))

-----------------------------------------------------------------------------
(* varuint32 *)

RECURSIVE push_varuint32(_)

\* push_varuint32 without b |= ((val > 0) << 7): a mutant
push_varuint32_no_continuation(v) ==
    LET b == IF Trim(v) = <<>> THEN 0 ELSE v[1] % 128
        push_back(val) ==
            IF val # <<>> THEN <<b>> \o push_varuint32(val) ELSE <<b>>
    IN  push_back(ShiftRight(v, 7))

\* The bytes push_varuint32 appends for the uint32_t v.
push_varuint32(v) ==
    LET b == IF Trim(v) = <<>> THEN 0 ELSE v[1] % 128
        push_back(val) ==
            IF val # <<>> THEN <<b + 128>> \o push_varuint32(val) ELSE <<b>>
    IN  push_back(ShiftRight(v, 7))

-----------------------------------------------------------------------------
(* stream events *)

\* event_data{}
event_data == [value_bool |-> FALSE, value_string |-> <<>>, key |-> <<>>]

\* One call of the reader into json_reader_handler: the event and what it carries.
Event(type, value_bool, value_string, key) ==
    [type |-> type, value_bool |-> value_bool, value_string |-> value_string,
     key |-> key]

\* What the handler stores in received_data before it calls receive_event.
Receive(received_data, event) ==
    IF event.type = "received_bool"
    THEN [received_data EXCEPT !.value_bool = event.value_bool]
    ELSE IF event.type = "received_string"
    THEN [received_data EXCEPT !.value_string = event.value_string]
    ELSE IF event.type = "received_key"
    THEN [received_data EXCEPT !.key = event.key]
    ELSE received_data

-----------------------------------------------------------------------------
(* json_to_number *)

\* sizeof(T), is_signed_v<T> and is_same_v<T, bool> of the integral types
\* that json_to_number is instantiated with.
NumberTypes ==
    [bool   |-> [size |-> 1, signed |-> FALSE, is_bool |-> TRUE],
     int8   |-> [size |-> 1, signed |-> TRUE,  is_bool |-> FALSE],
     uint8  |-> [size |-> 1, signed |-> FALSE, is_bool |-> FALSE],
     int16  |-> [size |-> 2, signed |-> TRUE,  is_bool |-> FALSE],
     uint16 |-> [size |-> 2, signed |-> FALSE, is_bool |-> FALSE],
     int32  |-> [size |-> 4, signed |-> TRUE,  is_bool |-> FALSE],
     uint32 |-> [size |-> 4, signed |-> FALSE, is_bool |-> FALSE],
     int64  |-> [size |-> 8, signed |-> TRUE,  is_bool |-> FALSE],
     uint64 |-> [size |-> 8, signed |-> FALSE, is_bool |-> FALSE]]

IsArithmetic(ser) == ser \in DOMAIN NumberTypes

Number(err, bytes) == [err |-> err, bytes |-> bytes]

NumberError(what) == Number([what |-> what, arg |-> <<>>], <<>>)

\* The helper decimal_to_binary<size>: the size little-endian bytes of a
\* decimal text, or what it throws.
decimal_to_binary(size, s) ==
    LET binary(value) ==
            IF Len(value) > size THEN NumberError("number is out of range")
            ELSE Number(NoError, Pad(value, size))
    IN  IF \E i \in DOMAIN s : ~IsDigit(s[i]) THEN NumberError("invalid number")
        ELSE binary(DecValue(s, <<>>))

\* The helpers negate and is_negative on a two's complement image.
negate(a) == Negate(a)

is_negative(a) == a[Len(a)] >= 128

\* The helper binary_to_decimal
binary_to_decimal(a) == to_string_unsigned(a)

\* json_to_number<T> without the test (T2)(T)result != result, returning
\* (T)result: a mutant
json_to_number_converted(T, received_data, event) ==
    LET low(bytes) == SubSeq(bytes, 1, T.size)
        signed(n) ==
            IF ~n.ok \/ ~(IF n.negative THEN FitsNegative(n.magnitude, 8)
                                         ELSE FitsPositive(n.magnitude, 8))
            THEN NumberError("number is out of range or has bad format")
            ELSE LET image(bytes) == IF n.negative /\ ~IsZero(bytes) THEN Negate(bytes)
                                     ELSE bytes
                 IN  Number(NoError, low(image(Pad(n.magnitude, 8))))
        unsigned(n) ==
            IF ~n.ok \/ Len(n.magnitude) > 8
            THEN NumberError("number is out of range or has bad format")
            ELSE Number(NoError, low(Pad(n.magnitude, 8)))
        string(s) ==
            IF T.signed THEN signed(ScanNumber(s))
            ELSE IF \E i \in DOMAIN s : s[i] = 45
            THEN NumberError("expected non-negative number")
            ELSE unsigned(ScanNumber(s))
    IN  IF event = "received_bool"
        THEN Number(NoError, Pad(IF received_data.value_bool THEN <<1>> ELSE <<>>, T.size))
        ELSE IF event = "received_string" THEN string(received_data.value_string)
        ELSE NumberError("expected number or boolean")

\* json_to_number<T>: the memory image of the T it returns, or what it throws.
json_to_number(T, received_data, event) ==
    LET \* check([&] { return stoll(s); })
        signed(n) ==
            IF ~n.ok \/ ~(IF n.negative THEN FitsNegative(n.magnitude, 8)
                                         ELSE FitsPositive(n.magnitude, 8))
            THEN NumberError("number is out of range or has bad format")
            ELSE IF ~(IF n.negative THEN FitsNegative(n.magnitude, T.size)
                                    ELSE FitsPositive(n.magnitude, T.size))
            THEN NumberError("number is out of range")
            ELSE LET image(bytes) == IF n.negative /\ ~IsZero(bytes) THEN Negate(bytes)
                                     ELSE bytes
                 IN  Number(NoError, image(Pad(n.magnitude, T.size)))
        \* check([&] { return stoull(s); }); a sign is excluded before the call
        unsigned(n) ==
            IF ~n.ok \/ Len(n.magnitude) > 8
            THEN NumberError("number is out of range or has bad format")
            ELSE IF (T.is_bool /\ n.magnitude \notin {<<>>, <<1>>})
                    \/ Len(n.magnitude) > T.size
            THEN NumberError("number is out of range")
            ELSE Number(NoError, Pad(n.magnitude, T.size))
        string(s) ==
            IF T.signed THEN signed(ScanNumber(s))
            ELSE IF \E i \in DOMAIN s : s[i] = 45
            THEN NumberError("expected non-negative number")
            ELSE unsigned(ScanNumber(s))
    IN  IF event = "received_bool"
        THEN Number(NoError, Pad(IF received_data.value_bool THEN <<1>> ELSE <<>>, T.size))
        ELSE IF event = "received_string" THEN string(received_data.value_string)
        ELSE NumberError("expected number or boolean")

-----------------------------------------------------------------------------
(* json_to_bin *)

max_stack_size == 128

size_insertion(position) == [position |-> position, size |-> 0]

\* json_to_bin_stack_entry{type}
json_to_bin_stack_entry(type) ==
    [type |-> type, position |-> -1, size_insertion_index |-> 0]

\* json_to_bin_state{}
json_to_bin_state ==
    [received_data |-> event_data, started |-> FALSE, bin |-> <<>>,
     size_insertions |-> <<>>, stack |-> <<>>]

\* The outcome of a call on a codec state: the state as the call left it, the
\* exception it threw (if any) and the bool it returned.
Returned(st, ret) == [st |-> st, err |-> NoError, ret |-> ret]

Raised(st, what, arg) == [st |-> st, err |-> [what |-> what, arg |-> arg], ret |-> FALSE]

PopBack(s) == SubSeq(s, 1, Len(s) - 1)

Back(s) == s[Len(s)]

\* json_to_bin(T*) for the arithmetic types
json_to_bin_arithmetic(st, ser, event) ==
    LET push_raw(n) ==
            IF IsError(n.err) THEN Raised(st, n.err.what, <<>>)
            ELSE Returned([st EXCEPT !.bin = @ \o n.bytes], TRUE)
    IN  push_raw(json_to_number(NumberTypes[ser], st.received_data, event))

\* json_to_bin(std::string*)
json_to_bin_string(st, event) ==
    IF event = "received_string"
    THEN Returned([st EXCEPT !.bin = @ \o push_varuint32(Unsigned(Len(st.received_data.value_string)))
                                       \o st.received_data.value_string],
                  TRUE)
    ELSE Raised(st, "expected string", <<>>)

\* The value of a hex digit, -1 for another character.
HexValue(c) ==
    IF c \in 48..57 THEN c - 48
    ELSE IF c \in 65..70 THEN c - 55
    ELSE IF c \in 97..102 THEN c - 87
    ELSE -1

\* boost::algorithm::unhex of an even number of hex digits
unhex(s) == [i \in 1..(Len(s) \div 2) |-> 16 * HexValue(s[2 * i - 1]) + HexValue(s[2 * i])]

\* json_to_bin(bytes*)
json_to_bin_bytes(st, event) ==
    LET s == st.received_data.value_string IN
    IF event # "received_string" THEN Raised(st, "expected string containing hex digits", <<>>)
    ELSE IF Len(s) % 2 = 1 THEN Raised(st, "odd number of hex digits", <<>>)
    ELSE IF \E i \in DOMAIN s : HexValue(s[i]) = -1 THEN Raised(st, "expected hex string", <<>>)
    ELSE Returned([st EXCEPT !.bin = @ \o push_varuint32(Unsigned(Len(s) \div 2)) \o unhex(s)],
                  TRUE)

\* json_to_bin(name*)
json_to_bin_name(st, event) ==
    IF event = "received_string"
    THEN Returned([st EXCEPT
                      !.bin = @ \o string_to_name(c_str(st.received_data.value_string))],
                  TRUE)
    ELSE Raised(st, "expected string containing name", <<>>)

\* push_varint32 with v << 1 alone, without ^ (v >> 31): a mutant
push_varint32_shifted(v) == push_varuint32(SubSeq(Pad(MulAdd(v, 2, 0), 4), 1, 4))

\* The bytes push_varint32 appends for the int32_t v, given as its memory
\* image: v << 1 keeps the low 32 bits and v >> 31 is all ones for a
\* negative v, as C++20 defines the shifts.
push_varint32(v) ==
    LET shifted == SubSeq(Pad(MulAdd(v, 2, 0), 4), 1, 4)
    IN  push_varuint32(IF v[4] >= 128 THEN [i \in 1..4 |-> 255 - shifted[i]] ELSE shifted)

\* json_to_bin(varint32*)
json_to_bin_varint32(st, event) ==
    LET push(n) ==
            IF IsError(n.err) THEN Raised(st, n.err.what, <<>>)
            ELSE Returned([st EXCEPT !.bin = @ \o push_varint32(n.bytes)], TRUE)
    IN  push(json_to_number(NumberTypes.int32, st.received_data, event))

\* json_to_bin(int128*) without the test is_negative(value) != negative: a
\* mutant
json_to_bin_int128_unverified(st, event) ==
    LET s == st.received_data.value_string
        negative == s # <<>> /\ s[1] = 45
        push_raw(value) ==
            IF IsError(value.err) THEN Raised(st, value.err.what, <<>>)
            ELSE Returned([st EXCEPT !.bin = @ \o (IF negative THEN negate(value.bytes)
                                                    ELSE value.bytes)], TRUE)
    IN  IF event = "received_string"
        THEN push_raw(decimal_to_binary(16, IF negative THEN Tail(s) ELSE s))
        ELSE Raised(st, "expected string containing int128", <<>>)

\* json_to_bin(int128*)
json_to_bin_int128(st, event) ==
    LET s == st.received_data.value_string
        negative == s # <<>> /\ s[1] = 45
        verified(value) ==
            IF is_negative(value) # negative THEN Raised(st, "number is out of range", <<>>)
            ELSE Returned([st EXCEPT !.bin = @ \o value], TRUE)
        push_raw(value) ==
            IF IsError(value.err) THEN Raised(st, value.err.what, <<>>)
            ELSE verified(IF negative THEN negate(value.bytes) ELSE value.bytes)
    IN  IF event = "received_string"
        THEN push_raw(decimal_to_binary(16, IF negative THEN Tail(s) ELSE s))
        ELSE Raised(st, "expected string containing int128", <<>>)

\* json_to_bin(varuint32*)
json_to_bin_varuint32(st, event) ==
    LET push(n) ==
            IF IsError(n.err) THEN Raised(st, n.err.what, <<>>)
            ELSE Returned([st EXCEPT !.bin = @ \o push_varuint32(n.bytes)], TRUE)
    IN  push(json_to_number(NumberTypes.uint32, st.received_data, event))

\* type->ser && type->ser->json_to_bin(state, type, event, start)
RECURSIVE ser_json_to_bin(_, _, _, _, _)

\* json_to_bin(pseudo_optional*): a mutant that leaves the tag of a present value out
json_to_bin_pseudo_optional_no_tag(types, st, type, event) ==
    IF event = "received_null" THEN Returned([st EXCEPT !.bin = Append(@, 0)], TRUE)
    ELSE ser_json_to_bin(types, st, types[type].optional_of, event, TRUE)

\* json_to_bin(pseudo_optional*)
json_to_bin_pseudo_optional(types, st, type, event) ==
    IF event = "received_null" THEN Returned([st EXCEPT !.bin = Append(@, 0)], TRUE)
    ELSE ser_json_to_bin(types, [st EXCEPT !.bin = Append(@, 1)],
                         types[type].optional_of, event, TRUE)

\* json_to_bin(pseudo_object*): a mutant that takes any key for the next field's
json_to_bin_pseudo_object_any_key(types, st, type, event, start) ==
    LET fields   == types[type].fields
        position == Back(st.stack).position
    IN  IF start
        THEN IF event # "received_start_object"
             THEN Raised(st, "expected object", <<>>)
             ELSE Returned([st EXCEPT !.stack = Append(@, json_to_bin_stack_entry(type))],
                           TRUE)
        ELSE IF event = "received_end_object"
        THEN IF position + 1 # Len(fields)
             THEN Raised(st, "expected field", fields[position + 2].name)
             ELSE Returned([st EXCEPT !.stack = PopBack(@)], TRUE)
        ELSE IF event = "received_key"
        THEN IF position + 1 >= Len(fields)
             THEN Raised([st EXCEPT !.stack[Len(st.stack)].position = @ + 1],
                         "unexpected field", st.received_data.key)
             ELSE Returned([st EXCEPT !.stack[Len(st.stack)].position = @ + 1], TRUE)
        ELSE ser_json_to_bin(types, st, fields[position + 1].type, event, TRUE)

\* json_to_bin(pseudo_object*)
json_to_bin_pseudo_object(types, st, type, event, start) ==
    LET fields   == types[type].fields
        position == Back(st.stack).position
    IN  IF start
        THEN IF event # "received_start_object"
             THEN Raised(st, "expected object", <<>>)
             ELSE Returned([st EXCEPT !.stack = Append(@, json_to_bin_stack_entry(type))],
                           TRUE)
        ELSE IF event = "received_end_object"
        THEN IF position + 1 # Len(fields)
             THEN Raised(st, "expected field", fields[position + 2].name)
             ELSE Returned([st EXCEPT !.stack = PopBack(@)], TRUE)
        ELSE IF event = "received_key"
        THEN IF position + 1 >= Len(fields)
             THEN Raised([st EXCEPT !.stack[Len(st.stack)].position = @ + 1],
                         "unexpected field", st.received_data.key)
             ELSE IF st.received_data.key # fields[position + 2].name
             THEN Raised([st EXCEPT !.stack[Len(st.stack)].position = @ + 1],
                         "expected field", fields[position + 2].name)
             ELSE Returned([st EXCEPT !.stack[Len(st.stack)].position = @ + 1], TRUE)
        ELSE ser_json_to_bin(types, st, fields[position + 1].type, event, TRUE)

\* json_to_bin(pseudo_array*) that takes size_insertions.size() for the index
\* after the push_back: a mutant
json_to_bin_pseudo_array_index_after(types, st, type, event, start) ==
    IF start
    THEN IF event # "received_start_array"
         THEN Raised(st, "expected array", <<>>)
         ELSE Returned(
                  [st EXCEPT
                      !.stack = Append(@, [json_to_bin_stack_entry(type) EXCEPT
                                               !.size_insertion_index =
                                                   Len(st.size_insertions) + 1]),
                      !.size_insertions = Append(@, size_insertion(Len(st.bin)))],
                  TRUE)
    ELSE IF event = "received_end_array"
    THEN Returned([st EXCEPT !.stack = PopBack(@)], TRUE)
    ELSE ser_json_to_bin(types, [st EXCEPT !.stack[Len(st.stack)].position = @ + 1],
                         types[type].array_of, event, TRUE)

\* json_to_bin(pseudo_array*)
json_to_bin_pseudo_array(types, st, type, event, start) ==
    IF start
    THEN IF event # "received_start_array"
         THEN Raised(st, "expected array", <<>>)
         ELSE Returned(
                  [st EXCEPT
                      !.stack = Append(@, [json_to_bin_stack_entry(type) EXCEPT
                                               !.size_insertion_index =
                                                   Len(st.size_insertions)]),
                      !.size_insertions = Append(@, size_insertion(Len(st.bin)))],
                  TRUE)
    ELSE IF event = "received_end_array"
    THEN Returned(
             [st EXCEPT
                 !.size_insertions[Back(st.stack).size_insertion_index + 1].size =
                     Back(st.stack).position + 1,
                 !.stack = PopBack(@)],
             TRUE)
    ELSE ser_json_to_bin(types, [st EXCEPT !.stack[Len(st.stack)].position = @ + 1],
                         types[type].array_of, event, TRUE)

\* The virtual call, for the serializers of the types the model's ABIs use.
ser_json_to_bin(types, st, type, event, start) ==
    IF types[type].ser = NoSer THEN Returned(st, FALSE)
    ELSE CASE IsArithmetic(types[type].ser) ->
                  json_to_bin_arithmetic(st, types[type].ser, event)
           [] types[type].ser = "string" -> json_to_bin_string(st, event)
           [] types[type].ser = "name" -> json_to_bin_name(st, event)
           [] types[type].ser = "bytes" -> json_to_bin_bytes(st, event)
           [] types[type].ser = "varuint32" -> json_to_bin_varuint32(st, event)
           [] types[type].ser = "varint32" -> json_to_bin_varint32(st, event)
           [] types[type].ser = "int128" -> json_to_bin_int128(st, event)
           [] types[type].ser = "pseudo_optional" ->
                  json_to_bin_pseudo_optional(types, st, type, event)
           [] types[type].ser = "pseudo_object" ->
                  json_to_bin_pseudo_object(types, st, type, event, start)
           [] types[type].ser = "pseudo_array" ->
                  json_to_bin_pseudo_array(types, st, type, event, start)

\* The handler's method for one event: received_data, get_start().
handle_event(st, ev) == [st EXCEPT !.received_data = Receive(@, ev), !.started = TRUE]

\* receive_event(json_to_bin_state&, event, start), without the test of the
\* stack's size: a mutant
receive_event_unbounded(types, st, event, start) ==
    IF st.stack = <<>> THEN Returned(st, FALSE)
    ELSE ser_json_to_bin(types, IF start THEN [st EXCEPT !.stack = <<>>] ELSE st,
                         Back(st.stack).type, event, start)

\* receive_event(json_to_bin_state&, event, start)
receive_event(types, st, event, start) ==
    LET cleared == IF start THEN [st EXCEPT !.stack = <<>>] ELSE st IN
    IF st.stack = <<>> THEN Returned(st, FALSE)
    ELSE IF Len(cleared.stack) > max_stack_size
    THEN Raised(cleared, "recursion limit reached", <<>>)
    ELSE ser_json_to_bin(types, cleared, Back(st.stack).type, event, start)

\* One call of the reader into the handler.
on_event(types, st, ev) == receive_event(types, handle_event(st, ev), ev.type, ~st.started)

\* The loop in the catch block of json_to_bin without the branch for arrays.
error_path_entry_no_index(types, entry) ==
    IF types[entry.type].filled_struct
    THEN IF entry.position >= 0 /\ entry.position < Len(types[entry.type].fields)
         THEN <<46>> \o types[entry.type].fields[entry.position + 1].name
         ELSE <<>>
    ELSE <<60, 63, 62>>

\* What the loop in the catch block of json_to_bin appends for one entry.
error_path_entry(types, entry) ==
    IF types[entry.type].array_of # NULL
    THEN <<91>> \o to_string_int(entry.position) \o <<93>>
    ELSE IF types[entry.type].filled_struct
    THEN IF entry.position >= 0 /\ entry.position < Len(types[entry.type].fields)
         THEN <<46>> \o types[entry.type].fields[entry.position + 1].name
         ELSE <<>>
    ELSE <<60, 63, 62>>

\* The loop in the catch block of json_to_bin, over the entries first..last
\* of the stack: what it appends for the first half, then for the second.
RECURSIVE error_path(_, _, _, _)
error_path(types, stack, first, last) ==
    CASE first > last -> <<>>
      [] first = last -> error_path_entry(types, stack[first])
      [] first < last ->
             error_path(types, stack, first, (first + last) \div 2)
             \o error_path(types, stack, (first + last) \div 2 + 1, last)

\* What the catch block of json_to_bin throws: path is the string s as it is
\* before s += e.what(), the rest the exception that was caught.
error_message(types, stack, err) ==
    LET separated(s) == IF s # <<>> THEN s \o <<58, 32>> ELSE s IN
    [path |-> separated((IF stack # <<>> /\ types[stack[1].type].filled_struct
                         THEN types[stack[1].type].name ELSE <<>>)
                        \o error_path(types, stack, 1, Len(stack))),
     what |-> err.what, arg |-> err.arg]

\* The loop at the end of json_to_bin that leaves the sizes out: a mutant
splice_no_sizes(state_bin, size_insertions, i, pos) ==
    SubSeq(state_bin, pos + 1, Len(state_bin))

\* The loop at the end of json_to_bin, from insertion i on: the bytes appended
\* to the caller's vector.
RECURSIVE splice(_, _, _, _)
splice(state_bin, size_insertions, i, pos) ==
    IF i > Len(size_insertions) THEN SubSeq(state_bin, pos + 1, Len(state_bin))
    ELSE SubSeq(state_bin, pos + 1, size_insertions[i].position)
             \o push_varuint32(Unsigned(size_insertions[i].size))
             \o splice(state_bin, size_insertions, i + 1, size_insertions[i].position)

\* reader.Parse over the events of a whole text, from event i on.
RECURSIVE parse_events(_, _, _, _)
parse_events(types, st, evs, i) ==
    LET next(r) == IF IsError(r.err) \/ ~r.ret THEN r
                   ELSE parse_events(types, r.st, evs, i + 1)
    IN  IF i > Len(evs) THEN Returned(st, TRUE) ELSE next(on_event(types, st, evs[i]))

\* json_to_bin(bin, type, json) for a text that is JSON, given as its events:
\* whether it returned (it throws otherwise) and the caller's vector after it.
json_to_bin(types, caller_bin, type, evs) ==
    LET spliced(r) ==
            IF IsError(r.err) \/ ~r.ret THEN [ok |-> FALSE, bin |-> caller_bin]
            ELSE [ok |-> TRUE,
                  bin |-> caller_bin \o splice(r.st.bin, r.st.size_insertions, 1, 0)]
    IN  spliced(parse_events(types,
                             [json_to_bin_state EXCEPT
                                  !.stack = <<json_to_bin_stack_entry(type)>>],
                             evs, 1))

-----------------------------------------------------------------------------
(* The JSON reader: which event the grammar allows next.  ctx is the stack *)
(* of open containers, expect what may follow.                             *)

reader_start == [ctx |-> <<>>, expect |-> "value"]

IsValueEvent(type) ==
    type \in {"received_null", "received_bool", "received_string",
              "received_start_object", "received_start_array"}

Allowed(rd, type) ==
    \/ rd.expect = "value" /\ IsValueEvent(type)
    \/ rd.expect = "member" /\ type \in {"received_key", "received_end_object"}
    \/ rd.expect = "element" /\ (IsValueEvent(type) \/ type = "received_end_array")

AfterValue(ctx) ==
    [ctx |-> ctx,
     expect |-> IF ctx = <<>> THEN "eof"
                ELSE IF Back(ctx) = "object" THEN "member" ELSE "element"]

Advance(rd, type) ==
    IF type = "received_start_object"
    THEN [ctx |-> Append(rd.ctx, "object"), expect |-> "member"]
    ELSE IF type = "received_start_array"
    THEN [ctx |-> Append(rd.ctx, "array"), expect |-> "element"]
    ELSE IF type = "received_key" THEN [rd EXCEPT !.expect = "value"]
    ELSE IF type \in {"received_end_object", "received_end_array"}
    THEN AfterValue(PopBack(rd.ctx))
    ELSE AfterValue(rd.ctx)

\* The writer's output is kept as the tokens of the JSON text.
Token(token, text) == [token |-> token, text |-> text]

\* The event the reader delivers for a token of a JSON text.  Numbers arrive
\* as strings (kParseNumbersAsStringsFlag: RawNumber calls String).
token_event(tok) ==
    CASE tok.token = "null" -> Event("received_null", FALSE, <<>>, <<>>)
      [] tok.token = "true" -> Event("received_bool", TRUE, <<>>, <<>>)
      [] tok.token = "false" -> Event("received_bool", FALSE, <<>>, <<>>)
      [] tok.token \in {"string", "number"} ->
             Event("received_string", FALSE, tok.text, <<>>)
      [] tok.token = "key" -> Event("received_key", FALSE, <<>>, tok.text)
      [] tok.token = "{" -> Event("received_start_object", FALSE, <<>>, <<>>)
      [] tok.token = "}" -> Event("received_end_object", FALSE, <<>>, <<>>)
      [] tok.token = "[" -> Event("received_start_array", FALSE, <<>>, <<>>)
      [] tok.token = "]" -> Event("received_end_array", FALSE, <<>>, <<>>)

-----------------------------------------------------------------------------
(* bin_to_json *)

\* The state of one bin_to_json call: the input buffer's position (as an
\* offset into the input), the work stack and what the writer has written.
bin_to_json_state == [pos |-> 0, stack |-> <<>>, writer |-> <<>>]

\* bin_to_json_stack_entry{type}
bin_to_json_stack_entry(type) == [type |-> type, position |-> -1, array_size |-> <<>>]

Write(st, token, text) == [st EXCEPT !.writer = Append(@, Token(token, text))]

\* What a build may make of undefined behaviour.  In read_varuint32 a shift
\* count of 32 or more (the sixth byte on) is undefined: the shift may give 0
\* or, as on x86, use the count modulo 32.  A bool read from a byte other than
\* 0 and 1 may print as either.
UndefinedOutcomes == {"zero", "masked"}

\* read_bin with bin.pos = bin.end in place of bin.pos += size: a mutant
read_bin_to_end(input, pos, size) ==
    IF Len(input) - pos < size
    THEN [err |-> [what |-> "read past end", arg |-> <<>>], bytes |-> <<>>, pos |-> pos]
    ELSE [err |-> NoError, bytes |-> SubSeq(input, pos + 1, pos + size), pos |-> Len(input)]

\* read_bin(bin, dest, size): the bytes read and the new position.
read_bin(input, pos, size) ==
    IF Len(input) - pos < size
    THEN [err |-> [what |-> "read past end", arg |-> <<>>], bytes |-> <<>>, pos |-> pos]
    ELSE [err |-> NoError, bytes |-> SubSeq(input, pos + 1, pos + size), pos |-> pos + size]

\* The do-while loop of read_varuint32; result is the uint32_t as its memory
\* image.  (b & 0x7f) << shift is an int: for shift < 32 the model gives it
\* the low 32 bits of the product, as C++20 defines it and as the compilers
\* of the earlier standards compute it.
RECURSIVE read_varuint32_loop(_, _, _, _, _)
read_varuint32_loop(input, pos, result, shift, ub) ==
    LET shifted(byte) ==
            IF shift < 32 THEN ShiftLeft(byte % 128, shift, 4)
            ELSE IF ub = "zero" THEN <<0, 0, 0, 0>>
            ELSE ShiftLeft(byte % 128, shift % 32, 4)
        loop(b) ==
            IF IsError(b.err) THEN [err |-> b.err, value |-> Trim(result), pos |-> pos]
            ELSE IF b.bytes[1] >= 128
            THEN read_varuint32_loop(input, b.pos, BitOr(result, shifted(b.bytes[1])),
                                     shift + 7, ub)
            ELSE [err |-> NoError, value |-> Trim(BitOr(result, shifted(b.bytes[1]))),
                  pos |-> b.pos]
    IN  loop(read_bin(input, pos, 1))

\* read_varuint32: the value as an unsigned value, and the new position.
read_varuint32(input, pos, ub) == read_varuint32_loop(input, pos, <<0, 0, 0, 0>>, 0, ub)

\* read_string without the test of the size: a mutant
read_string_unchecked(input, pos, ub) ==
    LET sized(size) ==
            IF IsError(size.err) THEN [err |-> size.err, bytes |-> <<>>, pos |-> size.pos]
            ELSE IF Exceeds(size.value, Len(input) - size.pos)
            THEN read_bin(input, size.pos, Len(input) - size.pos + 1)
            ELSE read_bin(input, size.pos, IntOf(size.value, Len(input) - size.pos))
    IN  sized(read_varuint32(input, pos, ub))

\* read_string
read_string(input, pos, ub) ==
    LET sized(size) ==
            IF IsError(size.err) THEN [err |-> size.err, bytes |-> <<>>, pos |-> size.pos]
            ELSE IF Exceeds(size.value, Len(input) - size.pos)
            THEN [err |-> [what |-> "invalid string size", arg |-> <<>>],
                  bytes |-> <<>>, pos |-> size.pos]
            ELSE read_bin(input, size.pos, IntOf(size.value, Len(input) - size.pos))
    IN  sized(read_varuint32(input, pos, ub))

\* bin_to_json(name*)
bin_to_json_name(input, st) ==
    LET written(v) ==
            IF IsError(v.err) THEN Raised(st, v.err.what, <<>>)
            ELSE Returned(Write([st EXCEPT !.pos = v.pos], "string", name_to_string(v.bytes)),
                          TRUE)
    IN  written(read_bin(input, st.pos, 8))

\* read_varint32: the int32_t as its memory image, and the new position.
read_varint32(input, pos, ub) ==
    LET signed(r) ==
            LET v == Pad(r.value, 4) IN
            [err |-> r.err,
             value |-> IF v[1] % 2 = 1
                       THEN BitOr(Pad(ShiftRight([i \in 1..4 |-> 255 - v[i]], 1), 4),
                                  <<0, 0, 0, 128>>)
                       ELSE Pad(ShiftRight(v, 1), 4),
             pos |-> r.pos]
    IN  signed(read_varuint32(input, pos, ub))

\* bin_to_json(varint32*)
bin_to_json_varint32(input, st, ub) ==
    LET written(v) ==
            IF IsError(v.err) THEN Raised([st EXCEPT !.pos = v.pos], v.err.what, <<>>)
            ELSE Returned(Write([st EXCEPT !.pos = v.pos], "number",
                                to_string_signed(v.value)),
                          TRUE)
    IN  written(read_varint32(input, st.pos, ub))

\* bin_to_json(int128*)
bin_to_json_int128(input, st) ==
    LET written(v) ==
            IF IsError(v.err) THEN Raised(st, v.err.what, <<>>)
            ELSE Returned(Write([st EXCEPT !.pos = v.pos], "string",
                                IF is_negative(v.bytes)
                                THEN <<45>> \o binary_to_decimal(negate(v.bytes))
                                ELSE binary_to_decimal(v.bytes)),
                          TRUE)
    IN  written(read_bin(input, st.pos, 16))

\* bin_to_json(varuint32*)
bin_to_json_varuint32(input, st, ub) ==
    LET written(v) ==
            IF IsError(v.err) THEN Raised([st EXCEPT !.pos = v.pos], v.err.what, <<>>)
            ELSE Returned(Write([st EXCEPT !.pos = v.pos], "number",
                                to_string_unsigned(v.value)),
                          TRUE)
    IN  written(read_varuint32(input, st.pos, ub))

\* bin_to_json(T*) with writer.Int64 and writer.Uint64 for the types of 8
\* bytes too: a mutant
bin_to_json_arithmetic_numbers(input, st, ser, ub) ==
    LET T == NumberTypes[ser]
        written(v) ==
            IF IsError(v.err) THEN Raised(st, v.err.what, <<>>)
            ELSE IF T.is_bool
            THEN Returned(Write([st EXCEPT !.pos = v.pos],
                                IF v.bytes = <<0>> THEN "false"
                                ELSE IF v.bytes = <<1>> THEN "true"
                                ELSE IF ub = "zero" THEN "false" ELSE "true", <<>>),
                          TRUE)
            ELSE Returned(Write([st EXCEPT !.pos = v.pos], "number",
                                IF T.signed THEN to_string_signed(v.bytes)
                                ELSE to_string_unsigned(v.bytes)),
                          TRUE)
    IN  written(read_bin(input, st.pos, T.size))

\* bin_to_json(T*) for the integral types
bin_to_json_arithmetic(input, st, ser, ub) ==
    LET T == NumberTypes[ser]
        written(v) ==
            IF IsError(v.err) THEN Raised(st, v.err.what, <<>>)
            ELSE IF T.is_bool
            THEN Returned(Write([st EXCEPT !.pos = v.pos],
                                IF v.bytes = <<0>> THEN "false"
                                ELSE IF v.bytes = <<1>> THEN "true"
                                ELSE IF ub = "zero" THEN "false" ELSE "true", <<>>),
                          TRUE)
            ELSE Returned(Write([st EXCEPT !.pos = v.pos],
                                IF T.size = 8 THEN "string" ELSE "number",
                                IF T.signed THEN to_string_signed(v.bytes)
                                ELSE to_string_unsigned(v.bytes)),
                          TRUE)
    IN  written(read_bin(input, st.pos, T.size))

\* boost::algorithm::hex: two upper case hex digits for every byte
hex(raw) ==
    LET digit(d) == IF d < 10 THEN 48 + d ELSE 55 + d
    IN  [i \in 1..(2 * Len(raw)) |->
            IF i % 2 = 1 THEN digit(raw[(i + 1) \div 2] \div 16)
            ELSE digit(raw[i \div 2] % 16)]

\* bin_to_json(bytes*)
bin_to_json_bytes(input, st, ub) ==
    LET written(raw) ==
            IF IsError(raw.err) THEN Raised([st EXCEPT !.pos = raw.pos], raw.err.what, <<>>)
            ELSE Returned(Write([st EXCEPT !.pos = raw.pos], "string", hex(raw.bytes)), TRUE)
        sized(size) ==
            IF IsError(size.err) THEN Raised([st EXCEPT !.pos = size.pos], size.err.what, <<>>)
            ELSE IF Exceeds(size.value, Len(input) - size.pos)
            THEN Raised([st EXCEPT !.pos = size.pos], "invalid bytes size", <<>>)
            ELSE written(read_bin(input, size.pos, IntOf(size.value, Len(input) - size.pos)))
    IN  sized(read_varuint32(input, st.pos, ub))

\* bin_to_json(std::string*)
bin_to_json_string(input, st, ub) ==
    LET written(s) ==
            IF IsError(s.err) THEN Raised([st EXCEPT !.pos = s.pos], s.err.what, <<>>)
            ELSE Returned(Write([st EXCEPT !.pos = s.pos], "string", s.bytes), TRUE)
    IN  written(read_string(input, st.pos, ub))

\* type->ser && type->ser->bin_to_json(state, type, start)
RECURSIVE ser_bin_to_json(_, _, _, _, _, _)

\* bin_to_json(pseudo_optional*)
bin_to_json_pseudo_optional(types, input, st, type, ub) ==
    LET tagged(tag) ==
            IF IsError(tag.err) THEN Raised(st, tag.err.what, <<>>)
            ELSE IF tag.bytes[1] # 0
            THEN ser_bin_to_json(types, input, [st EXCEPT !.pos = tag.pos],
                                 types[type].optional_of, TRUE, ub)
            ELSE Returned(Write([st EXCEPT !.pos = tag.pos], "null", <<>>), TRUE)
    IN  tagged(read_bin(input, st.pos, 1))

\* bin_to_json(pseudo_object*)
bin_to_json_pseudo_object(types, input, st, type, start, ub) ==
    LET fields   == types[type].fields
        position == Back(st.stack).position + 1
        advanced == [st EXCEPT !.stack[Len(st.stack)].position = @ + 1]
    IN  IF start
        THEN Returned(Write([st EXCEPT !.stack = Append(@, bin_to_json_stack_entry(type))],
                            "{", <<>>),
                      TRUE)
        ELSE IF position < Len(fields)
        THEN ser_bin_to_json(types, input,
                             Write(advanced, "key", fields[position + 1].name),
                             fields[position + 1].type, TRUE, ub)
        ELSE Returned(Write([advanced EXCEPT !.stack = PopBack(@)], "}", <<>>), TRUE)

\* bin_to_json(pseudo_array*)
bin_to_json_pseudo_array(types, input, st, type, start, ub) ==
    LET pushed   == [st EXCEPT !.stack = Append(@, bin_to_json_stack_entry(type))]
        sized(size) ==
            IF IsError(size.err)
            THEN Raised([pushed EXCEPT !.pos = size.pos], size.err.what, <<>>)
            ELSE Returned(Write([pushed EXCEPT !.stack[Len(pushed.stack)].array_size =
                                                   size.value,
                                               !.pos = size.pos],
                                "[", <<>>),
                          TRUE)
        position == Back(st.stack).position + 1
        advanced == [st EXCEPT !.stack[Len(st.stack)].position = @ + 1]
    IN  IF start THEN sized(read_varuint32(input, st.pos, ub))
        ELSE IF Exceeds(Back(st.stack).array_size, position)
        THEN ser_bin_to_json(types, input, advanced, types[type].array_of, TRUE, ub)
        ELSE Returned(Write([advanced EXCEPT !.stack = PopBack(@)], "]", <<>>), TRUE)

\* The virtual call, for the serializers of the types the model's ABIs use.
ser_bin_to_json(types, input, st, type, start, ub) ==
    IF types[type].ser = NoSer THEN Returned(st, FALSE)
    ELSE CASE IsArithmetic(types[type].ser) ->
                  bin_to_json_arithmetic(input, st, types[type].ser, ub)
           [] types[type].ser = "string" -> bin_to_json_string(input, st, ub)
           [] types[type].ser = "bytes" -> bin_to_json_bytes(input, st, ub)
           [] types[type].ser = "name" -> bin_to_json_name(input, st)
           [] types[type].ser = "varuint32" -> bin_to_json_varuint32(input, st, ub)
           [] types[type].ser = "varint32" -> bin_to_json_varint32(input, st, ub)
           [] types[type].ser = "int128" -> bin_to_json_int128(input, st)
           [] types[type].ser = "pseudo_optional" ->
                  bin_to_json_pseudo_optional(types, input, st, type, ub)
           [] types[type].ser = "pseudo_object" ->
                  bin_to_json_pseudo_object(types, input, st, type, start, ub)
           [] types[type].ser = "pseudo_array" ->
                  bin_to_json_pseudo_array(types, input, st, type, start, ub)

\* The while loop of bin_to_json
RECURSIVE bin_to_json_loop(_, _, _, _)
bin_to_json_loop(types, input, st, ub) ==
    LET after(r) ==
            IF IsError(r.err) THEN [pc |-> "thrown", what |-> r.err.what, st |-> r.st]
            ELSE IF ~r.ret THEN [pc |-> "false", what |-> "", st |-> r.st]
            ELSE IF Len(r.st.stack) > max_stack_size
            THEN [pc |-> "thrown", what |-> "recursion limit reached", st |-> r.st]
            ELSE bin_to_json_loop(types, input, r.st, ub)
    IN  IF st.stack = <<>> THEN [pc |-> "true", what |-> "", st |-> st]
        ELSE after(ser_bin_to_json(types, input, st, Back(st.stack).type, FALSE, ub))

\* bin_to_json(bin, type, dest): how it ends, the position of bin and what
\* the writer holds.
bin_to_json(types, input, type, ub) ==
    LET first(r) ==
            IF IsError(r.err) THEN [pc |-> "thrown", what |-> r.err.what, st |-> r.st]
            ELSE IF ~r.ret THEN [pc |-> "false", what |-> "", st |-> r.st]
            ELSE bin_to_json_loop(types, input, r.st, ub)
    IN  first(ser_bin_to_json(types, input, bin_to_json_state, type, TRUE, ub))

-----------------------------------------------------------------------------
(* json_to_native and bin_to_native *)

n_new_type_name == <<110, 101, 119, 95, 116, 121, 112, 101, 95, 110, 97, 109, 101>>
n_type == <<116, 121, 112, 101>>  \* "type"
n_base == <<98, 97, 115, 101>>  \* "base"
n_fields == <<102, 105, 101, 108, 100, 115>>  \* "fields"

native_field_serializer(name, T) == [name |-> name, T |-> T]

\* native_field_serializers_for<T>: the fields for_each_field names, in its order
native_field_serializers_for(T) ==
    CASE T = "type_def" ->
             <<native_field_serializer(n_new_type_name, "std::string"),
               native_field_serializer(n_type, "std::string")>>
      [] T = "field_def" ->
             <<native_field_serializer(n_name, "std::string"),
               native_field_serializer(n_type, "std::string")>>
      [] T = "struct_def" ->
             <<native_field_serializer(n_name, "std::string"),
               native_field_serializer(n_base, "std::string"),
               native_field_serializer(n_fields, "std::vector<field_def>")>>

\* std::is_class_v<T> for the types with for_each_field
is_class(T) == T \in {"type_def", "field_def", "struct_def"}

is_vector(T) == T = "std::vector<field_def>"

\* std::vector<T>::value_type
value_type(T) == "field_def"

\* T{}: an object is the sequence of its members, a vector that of its
\* elements, a string that of its characters.
RECURSIVE value_initialized(_)
value_initialized(T) ==
    IF is_class(T)
    THEN [i \in 1..Len(native_field_serializers_for(T)) |->
             value_initialized(native_field_serializers_for(T)[i].T)]
    ELSE <<>>

\* native_stack_entry{obj, ser}; obj is the way from the caller's object to
\* the object pointed to: the index of a member, of an element, ...
native_stack_entry(obj, ser) == [obj |-> obj, ser |-> ser, position |-> 0, array_size |-> 0]

\* json_to_native_state{} and the object the caller passed
json_to_native_state(T) ==
    [received_data |-> event_data, started |-> FALSE, stack |-> <<>>,
     root |-> value_initialized(T)]

\* *obj
RECURSIVE Pointee(_, _)
Pointee(root, obj) == IF obj = <<>> THEN root ELSE Pointee(root[Head(obj)], Tail(obj))

\* *obj = value; a vector grows by one when its one-past-the-end element is
\* assigned (emplace_back).
RECURSIVE Assign(_, _, _)
Assign(root, obj, value) ==
    IF obj = <<>> THEN value
    ELSE IF Head(obj) = Len(root) + 1
    THEN Append(root, Assign(<<>>, Tail(obj), value))
    ELSE [root EXCEPT ![Head(obj)] = Assign(@, Tail(obj), value)]

\* json_to_native(std::string&)
json_to_native_string(st, obj, event) ==
    IF event = "received_string"
    THEN Returned([st EXCEPT !.root = Assign(@, obj, st.received_data.value_string)], TRUE)
    ELSE Raised(st, "expected string", <<>>)

RECURSIVE ser_json_to_native(_, _, _, _, _)

\* The loop of json_to_native(T&) over the fields' names: the position it
\* stops at.
RECURSIVE find_field(_, _, _)
find_field(fields, key, position) ==
    IF position < Len(fields) /\ fields[position + 1].name # key
    THEN find_field(fields, key, position + 1)
    ELSE position

\* json_to_native(T&) of a class whose keys must come in the order of the
\* fields: a mutant
json_to_native_class_in_order(st, T, obj, event, start) ==
    LET fields   == native_field_serializers_for(T)
        position == Back(st.stack).position
        found    == IF fields[position + 1].name = st.received_data.key
                    THEN position ELSE Len(fields)
        at(p)    == [st EXCEPT !.stack[Len(st.stack)].position = p]
    IN  IF start
        THEN IF event # "received_start_object"
             THEN Raised(st, "expected object", <<>>)
             ELSE Returned([st EXCEPT !.stack = Append(@, native_stack_entry(obj, T))], TRUE)
        ELSE IF event = "received_end_object"
        THEN Returned([st EXCEPT !.stack = PopBack(@)], TRUE)
        ELSE IF event = "received_key"
        THEN IF found >= Len(fields)
             THEN Raised(at(found), "unknown field ", st.received_data.key)
             ELSE Returned(at(found), TRUE)
        ELSE IF position < Len(fields)
        THEN ser_json_to_native(st, fields[position + 1].T, Append(obj, position + 1),
                                event, TRUE)
        ELSE Returned(st, TRUE)

\* json_to_native(T&) of a class
json_to_native_class(st, T, obj, event, start) ==
    LET fields   == native_field_serializers_for(T)
        position == Back(st.stack).position
        found    == find_field(fields, st.received_data.key, 0)
        at(p)    == [st EXCEPT !.stack[Len(st.stack)].position = p]
    IN  IF start
        THEN IF event # "received_start_object"
             THEN Raised(st, "expected object", <<>>)
             ELSE Returned([st EXCEPT !.stack = Append(@, native_stack_entry(obj, T))], TRUE)
        ELSE IF event = "received_end_object"
        THEN Returned([st EXCEPT !.stack = PopBack(@)], TRUE)
        ELSE IF event = "received_key"
        THEN IF found >= Len(fields)
             THEN Raised(at(found), "unknown field ", st.received_data.key)
             ELSE Returned(at(found), TRUE)
        ELSE IF position < Len(fields)
        THEN ser_json_to_native(st, fields[position + 1].T, Append(obj, position + 1),
                                event, TRUE)
        ELSE Returned(st, TRUE)

\* json_to_native(std::vector<T>&)
json_to_native_vector(st, T, obj, event, start) ==
    IF start
    THEN IF event # "received_start_array"
         THEN Raised(st, "expected array", <<>>)
         ELSE Returned([st EXCEPT !.stack = Append(@, native_stack_entry(obj, T))], TRUE)
    ELSE IF event = "received_end_array"
    THEN Returned([st EXCEPT !.stack = PopBack(@)], TRUE)
    ELSE LET back == Append(obj, Len(Pointee(st.root, obj)) + 1)
             emplaced == [st EXCEPT !.root = Assign(@, back,
                                                    value_initialized(value_type(T)))]
         IN  ser_json_to_native(emplaced, value_type(T), back, event, TRUE)

\* native_serializer::json_to_native, native_field_serializer_methods::json_to_native
ser_json_to_native(st, T, obj, event, start) ==
    IF is_class(T) THEN json_to_native_class(st, T, obj, event, start)
    ELSE IF is_vector(T) THEN json_to_native_vector(st, T, obj, event, start)
    ELSE json_to_native_string(st, obj, event)

\* receive_event(json_to_native_state&, event, start)
receive_event_native(st, event, start) ==
    LET x == Back(st.stack) IN
    IF st.stack = <<>> THEN Raised(st, "extra data", <<>>)
    ELSE IF Len(st.stack) > max_stack_size
    THEN Raised(st, "recursion limit reached", <<>>)
    ELSE ser_json_to_native(IF start THEN [st EXCEPT !.stack = <<>>] ELSE st,
                            x.ser, x.obj, event, start)

\* One call of the reader into the json_to_native_state.
on_event_native(st, ev) == receive_event_native(handle_event(st, ev), ev.type, ~st.started)

\* bin_to_native_state{bin} and the object the caller passed
bin_to_native_state(T) == [pos |-> 0, stack |-> <<>>, root |-> value_initialized(T)]

\* bin_to_native(std::string&)
bin_to_native_string(input, st, obj, ub) ==
    LET resized(r) ==
            IF IsError(r.err) THEN Raised([st EXCEPT !.pos = r.pos], r.err.what, <<>>)
            ELSE Returned([st EXCEPT !.pos = r.pos, !.root = Assign(@, obj, r.bytes)], TRUE)
        sized(size) ==
            IF IsError(size.err) THEN Raised([st EXCEPT !.pos = size.pos], size.err.what, <<>>)
            ELSE IF Exceeds(size.value, Len(input) - size.pos - 1)
            THEN Raised([st EXCEPT !.pos = size.pos], "invalid string size", <<>>)
            ELSE resized(read_bin(input, size.pos,
                                  IntOf(size.value, Len(input) - size.pos)))
    IN  sized(read_varuint32(input, st.pos, ub))
-----------------------------------------------------------------------------
(* The state *)

VARIABLES
    abi,        \* the abi_def create_contract is given
    abi_types,  \* contract::abi_types
    cpc,        \* "start": before create_contract; "created"; "failed": it threw
    looked,     \* the last get_type call on the contract: name, exception, result
    lookups,    \* how many get_type calls were made on the contract
    call,       \* the codec call: its function, the root type, the caller's output before it
    pc,         \* where the call is: "parse", "first", "loop"; or how it ended
    error,      \* the exception that ended create_contract or the codec call
    state,      \* json_to_bin: the json_to_bin_state
    events,     \* json_to_bin: the events the reader has delivered so far
    reader,     \* json_to_bin: where the reader is in the JSON grammar
    bin,        \* json_to_bin: the caller's vector
    input,      \* bin_to_json: the bytes of the input buffer
    dstate,     \* bin_to_json: the bin_to_json_state
    dest        \* bin_to_json: the caller's string

abi_vars == <<abi, abi_types, cpc, looked, lookups>>

enc_vars == <<state, events, reader, bin>>

dec_vars == <<input, dstate, dest>>

vars == <<abi, abi_types, cpc, looked, lookups, call, pc, error, state, events,
          reader, bin, input, dstate, dest>>

NoLookup == [name |-> <<>>, err |-> NoError, res |-> NULL]

NoCall == [op |-> "none", type |-> NULL, before |-> <<>>]

NoMessage == [path |-> <<>>, what |-> "", arg |-> <<>>]

-----------------------------------------------------------------------------
(* The inputs of the model *)

n_B == <<66>>  \* "B"
n_S == <<83>>  \* "S"
n_P == <<80>>  \* "P"
n_R == <<82>>  \* "R"
n_a == <<97>>  \* "a"
n_b == <<98>>  \* "b"
n_r == <<114>>  \* "r"
n_xs == <<120, 115>>  \* "xs"
n_zz == <<122, 122>>  \* "zz"
n_opt == <<111, 112, 116>>  \* "opt"
n_s_optional == <<115, 63>>  \* "s?"
n_nope == <<110, 111, 112, 101>>  \* "nope"
s_one == <<49>>  \* "1"
s_three_hundred == <<51, 48, 48>>  \* "300"
s_hi == <<104, 105>>  \* "hi"

\* The ABI the codec is run with:
\*   struct B { a: uint32 }       struct S : B { b: string? }
\*   struct P { xs: uint8[] }     struct R { r: R? }
CodecAbi ==
    abi_def(<<>>,
            <<struct_def(n_B, <<>>, <<field_def(n_a, n_uint32)>>),
              struct_def(n_S, n_B, <<field_def(n_b, n_string \o suffix_optional)>>),
              struct_def(n_P, <<>>, <<field_def(n_xs, n_uint8 \o suffix_array)>>),
              struct_def(n_R, <<>>, <<field_def(n_r, n_R \o suffix_optional)>>)>>)

\* The type names json_to_bin is called with, and the further ones of bin_to_json.
EncodeRoots ==
    {n_S, n_S \o suffix_optional, n_P \o suffix_array, n_uint8 \o suffix_array,
     n_uint8 \o suffix_optional}

n_bytes == <<98, 121, 116, 101, 115>>  \* "bytes"

DecodeRoots == EncodeRoots \cup {n_R, n_bytes, n_string}

\* The longest text json_to_bin is given, counted in events.
MaxEvents == 9

\* What the caller's vector holds before json_to_bin.
CallerBins == {<<170>>}

StringInputs == {s_one, s_three_hundred, s_hi}

KeyInputs == {n_a, n_b, n_xs, n_zz}

StructureEvents ==
    {Event(t, FALSE, <<>>, <<>>) :
        t \in {"received_null", "received_start_object", "received_end_object",
               "received_start_array", "received_end_array"}}

EventInputs ==
    StructureEvents
    \cup {Event("received_bool", b, <<>>, <<>>) : b \in BOOLEAN}
    \cup {Event("received_string", FALSE, s, <<>>) : s \in StringInputs}
    \cup {Event("received_key", FALSE, <<>>, k) : k \in KeyInputs}

\* The longest input buffer bin_to_json is given.
MaxInput == 5

InputBytes == {0, 1, 2, 128}

RECURSIVE SeqsUpTo(_, _)
SeqsUpTo(S, n) ==
    IF n = 0 THEN {<<>>}
    ELSE LET longer(shorter) ==
                 shorter \cup {Append(s, x) : s \in {t \in shorter : Len(t) = n - 1},
                                              x \in S}
         IN  longer(SeqsUpTo(S, n - 1))

\* What the caller's string holds before bin_to_json: a JSON text of its own.
CallerDests == {<<Token("null", <<>>)>>}

\* The texts of nested R objects json_to_bin is given in SpecDeep, in events.
MaxDeepEvents == 260

DeepEvents ==
    {Event(t, FALSE, <<>>, <<>>) :
        t \in {"received_null", "received_start_object", "received_end_object"}}
    \cup {Event("received_key", FALSE, <<>>, n_r)}

\* The longest chain of aliases in an ABI: a1 -> a2 -> ... -> uint8.
MaxChain == 33

AliasOrders == {"head first", "tail first"}

\* The name of the i-th alias of a chain.  The names of a "head first" chain
\* sort a1 < a2 < ..., those of a "tail first" chain the other way round.
ChainName(i, order) ==
    IF order = "head first" THEN <<97, 48 + i>> ELSE <<97, 48 + (MaxChain + 2 - i)>>

ChainAbi(len, order) ==
    abi_def([i \in 1..len |->
                type_def(ChainName(i, order),
                         IF i = len THEN n_uint8 ELSE ChainName(i + 1, order))],
            <<>>)

\* ABIs with a cycle of aliases or of bases.
CycleAbis ==
    {\* type a = b; type b = a;        type a = a;       type a = a?;
     abi_def(<<type_def(n_a, n_b), type_def(n_b, n_a)>>, <<>>),
     abi_def(<<type_def(n_a, n_a)>>, <<>>),
     abi_def(<<type_def(n_a, n_a \o suffix_optional)>>, <<>>),
     \* type a = b; type b = a; struct S { r: uint8 }
     abi_def(<<type_def(n_a, n_b), type_def(n_b, n_a)>>,
             <<struct_def(n_S, <<>>, <<field_def(n_r, n_uint8)>>)>>),
     \* struct P : S {}  struct S : P {}        struct S : S {}
     abi_def(<<>>, <<struct_def(n_P, n_S, <<>>), struct_def(n_S, n_P, <<>>)>>),
     abi_def(<<>>, <<struct_def(n_S, n_S, <<>>)>>),
     \* struct B : P { a: uint8 }  struct P : S {}  struct S : P {}
     abi_def(<<>>,
             <<struct_def(n_B, n_P, <<field_def(n_a, n_uint8)>>),
               struct_def(n_P, n_S, <<>>), struct_def(n_S, n_P, <<>>)>>),
     \* struct B { a: uint8 }  struct P : S {}  struct S : P {}
     abi_def(<<>>,
             <<struct_def(n_B, <<>>, <<field_def(n_a, n_uint8)>>),
               struct_def(n_P, n_S, <<>>), struct_def(n_S, n_P, <<>>)>>)}

\* The ABIs create_contract is given.
AbiInputs ==
    {CodecAbi}
    \cup CycleAbis
    \cup {ChainAbi(MaxChain, order) : order \in AliasOrders}
    \cup {ChainAbi(MaxChain - 1, "head first")}
    \cup {\* a struct whose name ends in "?", and an alias of an optional
          abi_def(<<type_def(n_opt, n_uint8 \o suffix_optional)>>,
                  <<struct_def(n_s_optional, <<>>, <<field_def(n_a, n_uint8)>>)>>),
          \* a field whose type nests
          abi_def(<<>>,
                  <<struct_def(n_S, <<>>,
                               <<field_def(n_a, n_uint8 \o suffix_optional
                                                    \o suffix_array)>>)>>),
          \* a field whose type nests through an alias
          abi_def(<<type_def(n_opt, n_uint8 \o suffix_optional)>>,
                  <<struct_def(n_S, <<>>,
                               <<field_def(n_a, n_opt \o suffix_array)>>)>>),
          \* an alias with no target: type zz = ; struct S { a: zz }
          abi_def(<<type_def(n_zz, <<>>)>>,
                  <<struct_def(n_S, <<>>, <<field_def(n_a, n_zz)>>)>>),
          \* a redefined built-in type, and a base that is no struct
          abi_def(<<type_def(n_uint8, n_uint32)>>, <<>>),
          abi_def(<<>>, <<struct_def(n_S, n_uint8, <<>>)>>),
          \* aliases of aliases, met by the loop in the order a, xs, zz:
          \*   type zz = a; type a = xs; type xs = uint8;
          \*   struct S { a: zz, b: a[], r: xs? }
          abi_def(<<type_def(n_zz, n_a), type_def(n_a, n_xs), type_def(n_xs, n_uint8)>>,
                  <<struct_def(n_S, <<>>,
                               <<field_def(n_a, n_zz),
                                 field_def(n_b, n_a \o suffix_array),
                                 field_def(n_r, n_xs \o suffix_optional)>>)>>),
          \* inheritance through an alias, the derived structs first in the map:
          \*   type zz = S;                 struct B : P { b: string }
          \*   struct P : zz { xs: uint8[] }  struct S { a: uint32, r: uint8? }
          abi_def(<<type_def(n_zz, n_S)>>,
                  <<struct_def(n_B, n_P, <<field_def(n_b, n_string)>>),
                    struct_def(n_P, n_zz, <<field_def(n_xs, n_uint8 \o suffix_array)>>),
                    struct_def(n_S, <<>>,
                               <<field_def(n_a, n_uint32),
                                 field_def(n_r, n_uint8 \o suffix_optional)>>)>>),
          \* names defined twice: an alias named as extended_asset, a struct
          \* named as a built-in type, two aliases, two structs, and an
          \* alias and a struct of one name
          abi_def(<<type_def(n_extended_asset, n_asset)>>, <<>>),
          abi_def(<<>>, <<struct_def(n_string, <<>>, <<field_def(n_a, n_uint8)>>)>>),
          abi_def(<<type_def(n_zz, n_uint8), type_def(n_zz, n_uint32)>>, <<>>),
          abi_def(<<>>,
                  <<struct_def(n_S, <<>>, <<field_def(n_a, n_uint8)>>),
                    struct_def(n_S, <<>>, <<field_def(n_b, n_uint8)>>)>>),
          abi_def(<<type_def(n_S, n_uint8)>>,
                  <<struct_def(n_S, <<>>, <<field_def(n_a, n_uint8)>>)>>)}

\* The names get_type is called with on a contract.
LookupNames ==
    {base \o suffix : base \in {n_uint8, n_opt, n_s_optional},
                      suffix \in {<<>>, suffix_optional, suffix_array,
                                  suffix_optional \o suffix_optional,
                                  suffix_optional \o suffix_array,
                                  suffix_array \o suffix_optional,
                                  suffix_array \o suffix_array}}
    \cup {n_nope, n_S, ChainName(1, "head first"), n_zz, n_a, n_zz \o suffix_array}

\* How many get_type calls are made on a contract.
MaxLookups == 2

-----------------------------------------------------------------------------
(* create_contract and get_type on the contract *)

NoCodec ==
    /\ call = NoCall
    /\ pc = "none"
    /\ state = json_to_bin_state
    /\ events = <<>>
    /\ reader = reader_start
    /\ bin = <<>>
    /\ input = <<>>
    /\ dstate = bin_to_json_state
    /\ dest = <<>>

InitAbi ==
    /\ abi \in AbiInputs
    /\ abi_types = EmptyMap
    /\ cpc = "start"
    /\ looked = NoLookup
    /\ lookups = 0
    /\ error = NoMessage
    /\ NoCodec

\* How create_contract ends: it returns the contract, or throws and there is none.
Created(r) ==
    /\ cpc' = IF IsError(r.err) THEN "failed" ELSE "created"
    /\ abi_types' = IF IsError(r.err) THEN EmptyMap ELSE r.types
    /\ error' = [path |-> <<>>, what |-> r.err.what, arg |-> r.err.arg]

CreateContract ==
    /\ cpc = "start"
    /\ Created(create_contract(abi))
    /\ UNCHANGED <<abi, looked, lookups, call, pc, enc_vars, dec_vars>>

\* How a get_type call on the contract's map ends.
Looked(name, r) ==
    /\ abi_types' = r.types
    /\ looked' = [name |-> name, err |-> r.err, res |-> r.res]

\* A caller resolves a type name: get_type(contract.abi_types, name, 0).
GetType ==
    /\ cpc = "created"
    /\ lookups < MaxLookups
    /\ lookups' = lookups + 1
    /\ \E name \in LookupNames : Looked(name, get_type(abi_types, name, 0))
    /\ UNCHANGED <<abi, cpc, call, pc, error, enc_vars, dec_vars>>

-----------------------------------------------------------------------------
(* The codec calls *)

CodecContract == create_contract(CodecAbi)

\* The contract and the root type a codec call is made with: the caller
\* resolved the type's name with get_type on the contract.
Resolved(root, g) ==
    /\ abi = CodecAbi
    /\ abi_types = g.types
    /\ cpc = "created"
    /\ looked = [name |-> root, err |-> g.err, res |-> g.res]
    /\ lookups = 1
    /\ error = NoMessage

\* json_to_bin starts with state.stack.push_back({type}).
JsonToBinCalled(type, before) ==
    /\ call = [op |-> "json_to_bin", type |-> type, before |-> before]
    /\ pc = "parse"
    /\ state = [json_to_bin_state EXCEPT !.stack = <<json_to_bin_stack_entry(type)>>]
    /\ events = <<>>
    /\ reader = reader_start
    /\ bin = before
    /\ input = <<>>
    /\ dstate = bin_to_json_state
    /\ dest = <<>>

BinToJsonCalled(type, bytes, before) ==
    /\ call = [op |-> "bin_to_json", type |-> type, before |-> before]
    /\ pc = "first"
    /\ state = json_to_bin_state
    /\ events = <<>>
    /\ reader = reader_start
    /\ bin = <<>>
    /\ input = bytes
    /\ dstate = bin_to_json_state
    /\ dest = before

InitJsonToBin(roots) ==
    \E root \in roots :
        LET called(g) ==
                /\ Resolved(root, g)
                /\ \E before \in CallerBins : JsonToBinCalled(g.res, before)
        IN  called(get_type(CodecContract.types, root, 0))

InitBinToJson(roots, buffers) ==
    \E root \in roots :
        LET called(g) ==
                /\ Resolved(root, g)
                /\ \E bytes \in buffers, before \in CallerDests :
                       BinToJsonCalled(g.res, bytes, before)
        IN  called(get_type(CodecContract.types, root, 0))

\* How a call of the handler ends the step of reader.Parse that made it: an
\* exception, or a handler that returns false (the parse then fails), ends
\* json_to_bin in its catch block.
Handled(r, ev) ==
    /\ state' = r.st
    /\ IF IsError(r.err) \/ ~r.ret
       THEN /\ pc' = "thrown"
            /\ error' = error_message(abi_types, r.st.stack,
                                      IF IsError(r.err) THEN r.err
                                      ELSE [what |-> "failed to parse", arg |-> <<>>])
            /\ UNCHANGED reader
       ELSE /\ reader' = Advance(reader, ev.type)
            /\ UNCHANGED <<pc, error>>

\* One event of reader.Parse.
ReceiveEvent(inputs, limit) ==
    /\ pc = "parse"
    /\ Len(events) < limit
    /\ \E ev \in inputs :
        /\ Allowed(reader, ev.type)
        /\ events' = Append(events, ev)
        /\ Handled(on_event(abi_types, state, ev), ev)
    /\ UNCHANGED <<abi_vars, call, bin, dec_vars>>

\* The text is not JSON at this point (or ends early, or goes on after the
\* value): reader.Parse fails.
ParseError ==
    /\ pc = "parse"
    /\ pc' = "thrown"
    /\ error' = error_message(abi_types, state.stack,
                              [what |-> "failed to parse", arg |-> <<>>])
    /\ UNCHANGED <<abi_vars, call, enc_vars, dec_vars>>

\* reader.Parse succeeded: the size insertions are spliced into the caller's
\* vector.
Emit ==
    /\ pc = "parse"
    /\ reader.expect = "eof"
    /\ bin' = bin \o splice(state.bin, state.size_insertions, 1, 0)
    /\ pc' = "true"
    /\ UNCHANGED <<abi_vars, call, error, state, events, reader, dec_vars>>

\* bin_to_json with a writer that writes through to dest: a mutant
BinToJsonAfterWriteThrough(r, in_loop) ==
    /\ dstate' = r.st
    /\ dest' = r.st.writer
    /\ IF IsError(r.err)
       THEN /\ pc' = "thrown"
            /\ error' = [path |-> <<>>, what |-> r.err.what, arg |-> r.err.arg]
       ELSE IF ~r.ret
       THEN pc' = "false" /\ UNCHANGED error
       ELSE IF in_loop /\ Len(r.st.stack) > max_stack_size
       THEN /\ pc' = "thrown"
            /\ error' = [path |-> <<>>, what |-> "recursion limit reached", arg |-> <<>>]
       ELSE IF r.st.stack = <<>>
       THEN pc' = "true" /\ UNCHANGED error
       ELSE pc' = "loop" /\ UNCHANGED error

\* bin_to_json with `>=` in the test of the stack's size: a mutant
BinToJsonAfterOneEarly(r, in_loop) ==
    /\ dstate' = r.st
    /\ IF IsError(r.err)
       THEN /\ pc' = "thrown"
            /\ error' = [path |-> <<>>, what |-> r.err.what, arg |-> r.err.arg]
            /\ UNCHANGED dest
       ELSE IF ~r.ret
       THEN pc' = "false" /\ UNCHANGED <<error, dest>>
       ELSE IF in_loop /\ Len(r.st.stack) >= max_stack_size
       THEN /\ pc' = "thrown"
            /\ error' = [path |-> <<>>, what |-> "recursion limit reached", arg |-> <<>>]
            /\ UNCHANGED dest
       ELSE IF r.st.stack = <<>>
       THEN pc' = "true" /\ dest' = r.st.writer /\ UNCHANGED error
       ELSE pc' = "loop" /\ UNCHANGED <<error, dest>>

\* How a call of a serializer's bin_to_json ends the step of bin_to_json
\* that made it.
BinToJsonAfter(r, in_loop) ==
    /\ dstate' = r.st
    /\ IF IsError(r.err)
       THEN /\ pc' = "thrown"
            /\ error' = [path |-> <<>>, what |-> r.err.what, arg |-> r.err.arg]
            /\ UNCHANGED dest
       ELSE IF ~r.ret
       THEN pc' = "false" /\ UNCHANGED <<error, dest>>
       ELSE IF in_loop /\ Len(r.st.stack) > max_stack_size
       THEN /\ pc' = "thrown"
            /\ error' = [path |-> <<>>, what |-> "recursion limit reached", arg |-> <<>>]
            /\ UNCHANGED dest
       ELSE IF r.st.stack = <<>>
       THEN pc' = "true" /\ dest' = r.st.writer /\ UNCHANGED error
       ELSE pc' = "loop" /\ UNCHANGED <<error, dest>>

\* bin_to_json up to its loop.
BinToJsonFirst ==
    /\ pc = "first"
    /\ \E ub \in UndefinedOutcomes :
           BinToJsonAfter(ser_bin_to_json(abi_types, input, dstate, call.type, TRUE, ub),
                          FALSE)
    /\ UNCHANGED <<abi_vars, call, enc_vars, input>>

\* One turn of the loop of bin_to_json.
BinToJsonLoop ==
    /\ pc = "loop"
    /\ \E ub \in UndefinedOutcomes :
           BinToJsonAfter(ser_bin_to_json(abi_types, input, dstate,
                                          Back(dstate.stack).type, FALSE, ub),
                          TRUE)
    /\ UNCHANGED <<abi_vars, call, enc_vars, input>>

-----------------------------------------------------------------------------
(* The specifications *)

\* json_to_bin and bin_to_json on the contract of CodecAbi.
Init ==
    InitJsonToBin(EncodeRoots) \/ InitBinToJson(DecodeRoots, SeqsUpTo(InputBytes, MaxInput))

Next ==
    \/ ReceiveEvent(EventInputs, MaxEvents)
    \/ ParseError
    \/ Emit
    \/ BinToJsonFirst
    \/ BinToJsonLoop

Spec == Init /\ [][Next]_vars

\* create_contract, then get_type calls on the contract.
NextAbi == CreateContract \/ GetType

SpecAbi == InitAbi /\ [][NextAbi]_vars

\* json_to_bin of deeply nested objects.
InitDeep == InitJsonToBin({n_R})

NextDeep ==
    \/ ReceiveEvent(DeepEvents, MaxDeepEvents)
    \/ ParseError
    \/ Emit

SpecDeep == InitDeep /\ [][NextDeep]_vars


-----------------------------------------------------------------------------
(* The scalar types: the inputs *)

\* The name for_each_abi_type gives the built-in type of a serializer.
TypeNamed(ser) ==
    for_each_abi_type[CHOOSE i \in DOMAIN for_each_abi_type :
                          for_each_abi_type[i][2] = ser][1]

n_varuint32 == TypeNamed("varuint32")

n_uint64 == TypeNamed("uint64")

NumberRoots == {TypeNamed(ser) : ser \in DOMAIN NumberTypes}

\* sizeof of the integral types
Sizes == {NumberTypes[ser].size : ser \in DOMAIN NumberTypes}

\* 0xdeadbeef
deadbeef == <<239, 190, 173, 222>>

\* The magnitudes of the numbers json_to_bin is given: small ones, the ends
\* of the signed and unsigned range of every size with their neighbours, and
\* the values at which a varuint32 grows by a byte.
Magnitudes ==
    {Unsigned(n) : n \in 0..2}
    \cup UNION {{[i \in 1..size |-> IF i = size THEN 127 ELSE 255],
                 [i \in 1..size |-> IF i = size THEN 128 ELSE 0],
                 [i \in 1..size |-> IF i = size THEN 128 ELSE IF i = 1 THEN 1 ELSE 0],
                 [i \in 1..size |-> 255],
                 [i \in 1..(size + 1) |-> IF i = size + 1 THEN 1 ELSE 0]} : size \in Sizes}
    \cup UNION {{Unsigned(2 ^ (7 * k) - 1), Unsigned(2 ^ (7 * k))} : k \in 1..4}
    \cup {Unsigned(300), deadbeef}

\* The decimal token of a number
NumberText(negative, magnitude) ==
    (IF negative THEN <<45>> ELSE <<>>) \o to_string_unsigned(magnitude)

NumberEvents ==
    {Event("received_string", FALSE, NumberText(negative, magnitude), <<>>) :
        negative \in BOOLEAN, magnitude \in Magnitudes}
    \cup {Event("received_bool", b, <<>>, <<>>) : b \in BOOLEAN}
    \cup {Event("received_null", FALSE, <<>>, <<>>)}

\* The longest input buffer bin_to_json is given under varuint32.
MaxVaruintBytes == 6

VaruintBytes == {0, 1, 128, 255}

-----------------------------------------------------------------------------
(* The scalar types: the specifications *)

\* json_to_bin and bin_to_json under varuint32.
InitVaruint ==
    \/ InitJsonToBin({n_varuint32})
    \/ InitBinToJson({n_varuint32}, SeqsUpTo(VaruintBytes, MaxVaruintBytes))

NextVaruint ==
    \/ ReceiveEvent(NumberEvents, 1)
    \/ ParseError
    \/ Emit
    \/ BinToJsonFirst

SpecVaruint == InitVaruint /\ [][NextVaruint]_vars

\* The longest tail of a name string after its padding.
MaxNameTail == 2

\* . 1 5 a j k z
NameChars == {46, 49, 53, 97, 106, 107, 122}

\* The lengths of the padding of 'a' characters before the tail.
NamePads == {0, 6, 11}

\* "eosio.token"
s_eosio_token == <<101, 111, 115, 105, 111, 46, 116, 111, 107, 101, 110>>

\* The strings json_to_bin is given under name.
NameStrings ==
    {[i \in 1..pad |-> 97] \o tail :
        pad \in NamePads, tail \in SeqsUpTo(NameChars, MaxNameTail)}
    \cup {s_eosio_token}

NameEvents ==
    {Event("received_string", FALSE, s, <<>>) : s \in NameStrings}
    \cup {Event("received_bool", TRUE, <<>>, <<>>), Event("received_null", FALSE, <<>>, <<>>)}

WordBytes == {0, 165, 255}

\* 0x5530EA033482A600 and 0x5530EA0336B11BA4 in memory
word_5530EA033482A600 == <<0, 166, 130, 52, 3, 234, 48, 85>>

word_5530EA0336B11BA4 == <<164, 27, 177, 54, 3, 234, 48, 85>>

\* The uint64_t values bin_to_json is given under name: the names of the
\* strings and words of a few byte values.
NameImages ==
    {string_to_name(s) : s \in NameStrings}
    \cup {word_5530EA0336B11BA4}
    \cup {lo \o hi : lo, hi \in {s \in SeqsUpTo(WordBytes, 4) : Len(s) = 4}}

\* json_to_bin and bin_to_json under name.
InitName == InitJsonToBin({n_name}) \/ InitBinToJson({n_name}, NameImages)

NextName ==
    \/ ReceiveEvent(NameEvents, 1)
    \/ ParseError
    \/ Emit
    \/ BinToJsonFirst

SpecName == InitName /\ [][NextName]_vars

ImageBytes == {0, 1, 128, 255}

\* The buffers bin_to_json is given under an integral type of a size: a low
\* byte, equal bytes between and a high byte, and the magnitudes that fit
\* with their negations.
Images(size) ==
    {[i \in 1..size |-> IF i = 1 THEN low ELSE IF i = size THEN high ELSE middle] :
        low \in ImageBytes, middle \in ImageBytes, high \in ImageBytes}
    \cup {Pad(magnitude, size) : magnitude \in {m \in Magnitudes : Len(m) <= size}}
    \cup {Negate(Pad(magnitude, size)) : magnitude \in {m \in Magnitudes : Len(m) <= size}}

\* json_to_bin and bin_to_json under the integral types.
InitNumber ==
    \/ InitJsonToBin(NumberRoots)
    \/ \E ser \in DOMAIN NumberTypes :
           InitBinToJson({TypeNamed(ser)}, Images(NumberTypes[ser].size))

NextNumber ==
    \/ ReceiveEvent(NumberEvents, 1)
    \/ ParseError
    \/ Emit
    \/ BinToJsonFirst

SpecNumber == InitNumber /\ [][NextNumber]_vars

-----------------------------------------------------------------------------
(* int128 *)

n_int128 == TypeNamed("int128")

\* 2^127 - 1, 2^127 and 2^128 - 1
WideMaximum == [i \in 1..16 |-> IF i = 16 THEN 127 ELSE 255]

WideMinimum == [i \in 1..16 |-> IF i = 16 THEN 128 ELSE 0]

WideOnes == [i \in 1..16 |-> 255]

\* The magnitudes of the numbers json_to_bin is given under int128.
WideMagnitudes ==
    {Unsigned(n) : n \in 0..1}
    \cup {[i \in 1..9 |-> IF i = 9 THEN 1 ELSE 0],
          WideMaximum, WideMinimum, [WideMinimum EXCEPT ![1] = 1], WideOnes,
          [i \in 1..17 |-> IF i = 17 THEN 1 ELSE 0]}

WideEvents ==
    {Event("received_string", FALSE, NumberText(negative, magnitude), <<>>) :
        negative \in BOOLEAN, magnitude \in WideMagnitudes}
    \cup {Event("received_string", FALSE, s, <<>>) : s \in {<<>>, <<45>>, <<49, 97>>}}
    \cup {Event("received_bool", TRUE, <<>>, <<>>), Event("received_null", FALSE, <<>>, <<>>)}

\* The 16-byte buffers bin_to_json is given under int128.
WideImages ==
    {Pad(magnitude, 16) : magnitude \in {m \in WideMagnitudes : Len(m) <= 16}}
    \cup {Negate(Pad(magnitude, 16)) : magnitude \in {m \in WideMagnitudes : Len(m) <= 16}}
    \cup Images(16)

\* json_to_bin and bin_to_json under int128.
InitInt128 == InitJsonToBin({n_int128}) \/ InitBinToJson({n_int128}, WideImages)

NextInt128 ==
    \/ ReceiveEvent(WideEvents, 1)
    \/ ParseError
    \/ Emit
    \/ BinToJsonFirst

SpecInt128 == InitInt128 /\ [][NextInt128]_vars

-----------------------------------------------------------------------------
(* varint32 *)

n_varint32 == TypeNamed("varint32")

\* The buffers bin_to_json is given under varint32: the varuint32 of the
\* 32-bit values of Images.
VarintBuffers == {push_varuint32(v) : v \in Images(4)}

\* json_to_bin and bin_to_json under varint32.
InitVarint == InitJsonToBin({n_varint32}) \/ InitBinToJson({n_varint32}, VarintBuffers)

SpecVarint == InitVarint /\ [][NextNumber]_vars

-----------------------------------------------------------------------------
(* json_to_native *)

\* The longest text json_to_native is given, counted in events.
MaxNativeEvents == 11

NativeRoots == {"type_def", "struct_def"}

NativeEvents ==
    {Event(t, FALSE, <<>>, <<>>) :
        t \in {"received_null", "received_start_object", "received_end_object",
               "received_start_array", "received_end_array"}}
    \cup {Event("received_string", FALSE, s, <<>>) : s \in {<<>>, s_hi}}
    \cup {Event("received_key", FALSE, <<>>, k) :
             k \in {n_new_type_name, n_type, n_name, n_fields, n_zz}}

\* json_to_native(obj, json) starts with state.stack.push_back({&obj, ...}).
InitNative ==
    /\ abi = CodecAbi
    /\ abi_types = EmptyMap
    /\ cpc = "start"
    /\ looked = NoLookup
    /\ lookups = 0
    /\ error = NoMessage
    /\ \E T \in NativeRoots :
        /\ call = [op |-> "json_to_native", type |-> T, before |-> <<>>]
        /\ state = [json_to_native_state(T) EXCEPT
                       !.stack = <<native_stack_entry(<<>>, T)>>]
    /\ pc = "parse"
    /\ events = <<>>
    /\ reader = reader_start
    /\ bin = <<>>
    /\ input = <<>>
    /\ dstate = bin_to_json_state
    /\ dest = <<>>

\* How a call of the handler ends: json_to_native catches nothing.
NativeHandled(r, next_reader) ==
    /\ state' = r.st
    /\ IF IsError(r.err)
       THEN /\ pc' = "thrown"
            /\ error' = [path |-> <<>>, what |-> r.err.what, arg |-> r.err.arg]
            /\ UNCHANGED reader
       ELSE /\ reader' = next_reader
            /\ pc' = IF r.ret THEN pc ELSE "false"
            /\ UNCHANGED error

\* One event of reader.Parse.
NativeReceiveEvent ==
    /\ call.op = "json_to_native"
    /\ pc = "parse"
    /\ Len(events) < MaxNativeEvents
    /\ \E ev \in NativeEvents :
        /\ Allowed(reader, ev.type)
        /\ events' = Append(events, ev)
        /\ NativeHandled(on_event_native(state, ev), Advance(reader, ev.type))
    /\ UNCHANGED <<abi_vars, call, bin, dec_vars>>

\* The handler is given an event after the end of the top-level value, by a
\* caller that goes on feeding the json_to_native_state.
NativeFurtherEvent ==
    /\ call.op = "json_to_native"
    /\ pc = "parse"
    /\ reader.expect = "eof"
    /\ \E ev \in NativeEvents :
        /\ events' = Append(events, ev)
        /\ NativeHandled(on_event_native(state, ev), reader)
    /\ UNCHANGED <<abi_vars, call, bin, dec_vars>>

\* reader.Parse returns: true at the end of the text.
NativeParsed ==
    /\ call.op = "json_to_native"
    /\ pc = "parse"
    /\ reader.expect = "eof"
    /\ pc' = "true"
    /\ UNCHANGED <<abi_vars, call, error, enc_vars, dec_vars>>

NextNative == NativeReceiveEvent \/ NativeFurtherEvent \/ NativeParsed

SpecNative == InitNative /\ [][NextNative]_vars

-----------------------------------------------------------------------------
(* bin_to_json under structs that contain themselves *)

\* struct S { r: S }   struct B { a: uint8, b: P }   struct P { xs: B }
SelfAbi ==
    abi_def(<<>>,
            <<struct_def(n_S, <<>>, <<field_def(n_r, n_S)>>),
              struct_def(n_B, <<>>, <<field_def(n_a, n_uint8), field_def(n_b, n_P)>>),
              struct_def(n_P, <<>>, <<field_def(n_xs, n_B)>>)>>)

\* The longest input buffer bin_to_json is given under these structs.
MaxSelfInput == 66

SelfLengths == {0, 1, 63, 64, MaxSelfInput}

InitSelf ==
    \E root \in {n_S, n_B, n_P} :
        LET called(g) ==
                /\ abi = SelfAbi
                /\ abi_types = g.types
                /\ cpc = "created"
                /\ looked = [name |-> root, err |-> g.err, res |-> g.res]
                /\ lookups = 1
                /\ error = NoMessage
                /\ \E n \in SelfLengths, before \in CallerDests :
                       BinToJsonCalled(g.res, [i \in 1..n |-> 1], before)
        IN  called(get_type(create_contract(SelfAbi).types, root, 0))

NextSelf == BinToJsonFirst \/ BinToJsonLoop

\* bin_to_json runs on: its loop has no wait in it.
SpecSelf == InitSelf /\ [][NextSelf]_vars /\ WF_vars(NextSelf)

-----------------------------------------------------------------------------
(* bin_to_native *)

\* bin_to_native(obj, bin) of a std::string is about to be called.
InitBinToNative ==
    /\ abi = CodecAbi
    /\ abi_types = EmptyMap
    /\ cpc = "start"
    /\ looked = NoLookup
    /\ lookups = 0
    /\ error = NoMessage
    /\ call = [op |-> "bin_to_native", type |-> "std::string", before |-> <<>>]
    /\ state = bin_to_native_state("std::string")
    /\ pc = "first"
    /\ events = <<>>
    /\ reader = reader_start
    /\ bin = <<>>
    /\ input \in SeqsUpTo(InputBytes, MaxInput)
    /\ dstate = bin_to_json_state
    /\ dest = <<>>

\* bin_to_native(obj, bin): the serializer's call; a std::string pushes no
\* frame, so the loop is not entered.
BinToNative ==
    /\ call.op = "bin_to_native"
    /\ pc = "first"
    /\ \E ub \in UndefinedOutcomes :
        LET after(r) ==
                /\ state' = r.st
                /\ pc' = IF IsError(r.err) THEN "thrown" ELSE "true"
                /\ error' = [path |-> <<>>, what |-> r.err.what, arg |-> r.err.arg]
        IN  after(bin_to_native_string(input, state, <<>>, ub))
    /\ UNCHANGED <<abi_vars, call, events, reader, bin, dec_vars>>

SpecBinToNative == InitBinToNative /\ [][BinToNative]_vars
-----------------------------------------------------------------------------
(* The wire format, as the specification defines it: the encoding of the   *)
(* JSON value that starts at event i of evs under a type, and the index of *)
(* the event after the value.                                              *)

wire_value(bytes, next) == [bytes |-> bytes, next |-> next]

\* What one event contributes by itself under a type that is no optional:
\* the encoding of a leaf; nothing for the start of an object or an array.
event_encoding(types, type, ev) ==
    CASE types[type].ser = "string" ->
             push_varuint32(Unsigned(Len(ev.value_string))) \o ev.value_string
      [] IsArithmetic(types[type].ser) ->
             json_to_number(NumberTypes[types[type].ser], Receive(event_data, ev),
                            ev.type).bytes
      [] types[type].ser \in {"pseudo_object", "pseudo_array"} -> <<>>

RECURSIVE wire(_, _, _, _)

\* The payloads of an array from event i on, up to its end_array.
RECURSIVE wire_elements(_, _, _, _)
wire_elements(types, type, evs, i) ==
    LET rest(first) ==
            LET more(others) ==
                    [count |-> others.count + 1,
                     bytes |-> first.bytes \o others.bytes,
                     next |-> others.next]
            IN  more(wire_elements(types, type, evs, first.next))
    IN  IF evs[i].type = "received_end_array"
        THEN [count |-> 0, bytes |-> <<>>, next |-> i + 1]
        ELSE rest(wire(types, type, evs, i))

\* The fields of a struct from field k on: event i is the key of field k, or
\* the end_object when there is no field k.
RECURSIVE wire_fields(_, _, _, _, _)
wire_fields(types, fields, k, evs, i) ==
    LET rest(first) ==
            LET more(others) == wire_value(first.bytes \o others.bytes, others.next)
            IN  more(wire_fields(types, fields, k + 1, evs, first.next))
    IN  IF k > Len(fields) THEN wire_value(<<>>, i + 1)
        ELSE rest(wire(types, fields[k].type, evs, i + 1))

wire(types, type, evs, i) ==
    LET present(payload) == wire_value(<<1>> \o payload.bytes, payload.next)
        counted(elements) ==
            wire_value(push_varuint32(Unsigned(elements.count)) \o elements.bytes, elements.next)
    IN  CASE types[type].ser = "pseudo_optional" /\ evs[i].type = "received_null" ->
                 wire_value(<<0>>, i + 1)
          [] types[type].ser = "pseudo_optional" /\ evs[i].type # "received_null" ->
                 present(wire(types, types[type].optional_of, evs, i))
          [] types[type].ser = "pseudo_array" ->
                 counted(wire_elements(types, types[type].array_of, evs, i + 1))
          [] types[type].ser = "pseudo_object" ->
                 wire_fields(types, types[type].fields, 1, evs, i + 1)
          [] types[type].ser \notin {"pseudo_optional", "pseudo_array", "pseudo_object"} ->
                 wire_value(event_encoding(types, type, evs[i]), i + 1)

-----------------------------------------------------------------------------
(* Properties *)

\* The event of the ReceiveEvent step that is being taken.
IsReceiveEvent == pc = "parse" /\ events' # events

\* The frame on top of the work stack is a struct's.
ObjectOnTop ==
    /\ state.started
    /\ state.stack # <<>>
    /\ abi_types[Back(state.stack).type].ser = "pseudo_object"

FieldNames(type) ==
    [i \in DOMAIN abi_types[type].fields |-> abi_types[type].fields[i].name]

C1_KeyStep ==
    (IsReceiveEvent /\ ObjectOnTop) =>
        LET position == Back(state.stack).position
            fields   == abi_types[Back(state.stack).type].fields
            ev       == Back(events')
        IN  /\ ev.type = "received_key" =>
                /\ pc' = "parse" <=> (/\ position + 1 < Len(fields)
                                      /\ ev.key = fields[position + 2].name)
                /\ pc' # "parse" =>
                       /\ pc' = "thrown"
                       /\ error'.what \in {"expected field", "unexpected field"}
            /\ ev.type = "received_end_object" =>
                /\ pc' = "parse" <=> (position + 1 = Len(fields))
                /\ pc' # "parse" => pc' = "thrown" /\ error'.what = "expected field"

\* C1: under a struct type json_to_bin accepts a key exactly when it is the
\* name of the next field of the flattened field list (the base's fields,
\* then the struct's own, in declaration order) and accepts end_object exactly
\* when every field was supplied; a key that differs from the next field's
\* name, a key after the last field, a repeated key and an early end_object
\* each end the encoding with an error.
C1_StrictFieldOrder ==
    /\ [](FieldNames(n_S) = <<n_a, n_b>>)
    /\ [][C1_KeyStep]_vars

\* The text {"a":1,"a" under S: the repeated key is rejected.
C1_RepeatedKeyRejected ==
    /\ pc = "thrown"
    /\ call.op = "json_to_bin"
    /\ call.type = n_S
    /\ events = <<Event("received_start_object", FALSE, <<>>, <<>>),
                  Event("received_key", FALSE, <<>>, n_a),
                  Event("received_string", FALSE, s_one, <<>>),
                  Event("received_key", FALSE, <<>>, n_a)>>
    /\ error.what = "expected field"
    /\ error.arg = n_b

\* The events the reader delivers for the JSON text bin_to_json has written.
WrittenEvents == [i \in DOMAIN dest |-> token_event(dest[i])]

\* C2: when bin_to_json has decoded a whole buffer under a type, json_to_bin
\* of the JSON it wrote, under the same type, returns the bytes of the buffer.
C2_DecodeEncodeIsIdentity ==
    (pc = "true" /\ call.op = "bin_to_json" /\ dstate.pos = Len(input)) =>
        json_to_bin(abi_types, <<>>, call.type, WrittenEvents)
            = [ok |-> TRUE, bin |-> input]

\* C3: what json_to_bin appends to the caller's vector is the recursive wire
\* format of the JSON value: for an array, varuint32 of its element count and
\* then the elements' encodings in order, the count of an enclosing array
\* before the counts of the arrays inside it.
C3_ArrayWireFormat ==
    (pc = "true" /\ call.op = "json_to_bin") =>
        bin = call.before \o wire(abi_types, call.type, events, 1).bytes

\* The text [{"xs":[1]}] under P[]: an array inside a struct inside an array.
C3_NestedArrayEncoded ==
    /\ pc = "true"
    /\ call.op = "json_to_bin"
    /\ call.type = n_P \o suffix_array
    /\ Len(events) = 8
    /\ events[4].type = "received_start_array"
    /\ bin = call.before \o <<1, 1, 1>>

\* The type an event is dispatched to, when that type is an optional: the
\* root type for the first event, the type of the current field for a value
\* inside a struct.  NULL otherwise.
OptionalDispatched(ev) ==
    LET top == Back(state.stack)
        is_optional(type) == IF abi_types[type].ser = "pseudo_optional" THEN type ELSE NULL
    IN  IF ~state.started THEN is_optional(call.type)
        ELSE IF /\ ObjectOnTop
                /\ ev.type \notin {"received_key", "received_end_object"}
                /\ top.position >= 0
                /\ top.position < Len(abi_types[top.type].fields)
        THEN is_optional(abi_types[top.type].fields[top.position + 1].type)
        ELSE NULL

C4_OptionalStep ==
    (IsReceiveEvent /\ OptionalDispatched(Back(events')) # NULL) =>
        LET ev    == Back(events')
            inner == abi_types[OptionalDispatched(ev)].optional_of
        IN  /\ ev.type = "received_null" =>
                pc' = "parse" /\ state'.bin = state.bin \o <<0>>
            /\ (ev.type # "received_null" /\ pc' = "parse") =>
                state'.bin = state.bin \o <<1>> \o event_encoding(abi_types, inner, ev)

C4_Doc(b_value) ==
    <<Event("received_start_object", FALSE, <<>>, <<>>),
      Event("received_key", FALSE, <<>>, n_a),
      Event("received_string", FALSE, s_one, <<>>),
      Event("received_key", FALSE, <<>>, n_b),
      b_value,
      Event("received_end_object", FALSE, <<>>, <<>>)>>

C4_Vectors ==
    (pc = "true" /\ call.op = "json_to_bin" /\ call.type = n_S) =>
        /\ events = C4_Doc(Event("received_null", FALSE, <<>>, <<>>)) =>
               bin = call.before \o <<1, 0, 0, 0, 0>>
        /\ events = C4_Doc(Event("received_string", FALSE, s_hi, <<>>)) =>
               bin = call.before \o <<1, 0, 0, 0, 1, 2, 104, 105>>

\* C4: an event dispatched to an optional type T? appends the byte 0 and
\* nothing else when it is null, and otherwise the byte 1 followed by what the
\* same event appends under T; under S {a: uint32, b: string?} the text
\* {"a":1,"b":null} gives 01 00 00 00 00 and {"a":1,"b":"hi"} gives
\* 01 00 00 00 01 02 68 69.
C4_OptionalEncoding ==
    /\ []C4_Vectors
    /\ [][C4_OptionalStep]_vars

\* {"a":1,"b":"hi"} under S was encoded behind the caller's bytes.
C4_PresentValueEncoded ==
    /\ pc = "true"
    /\ call.op = "json_to_bin"
    /\ call.type = n_S
    /\ events = C4_Doc(Event("received_string", FALSE, s_hi, <<>>))
    /\ bin = <<170, 1, 0, 0, 0, 1, 2, 104, 105>>

\* C5: once bin_to_json under an optional type has read a tag byte other
\* than 0 and 1, the decode has failed.
C5_OtherTagsFail ==
    (/\ call.op = "bin_to_json"
     /\ pc # "first"
     /\ abi_types[call.type].ser = "pseudo_optional"
     /\ input # <<>>
     /\ input[1] \notin {0, 1}) => pc \in {"thrown", "false"}

\* C6: the contract's type map stays what create_contract returned, whatever
\* type names are resolved with get_type afterwards.
C6_ContractIsReadOnly ==
    cpc = "created" => abi_types = create_contract(abi).types

\* C7: when json_to_bin fails the caller's vector is what it was before the
\* call, and when bin_to_json fails the destination string is what it was
\* before the call.
C7_NoPartialOutput ==
    pc \in {"thrown", "false"} =>
        /\ call.op = "json_to_bin" => bin = call.before
        /\ call.op = "bin_to_json" => dest = call.before

\* bin_to_json failed after the writer had written part of the text.
C7_FailedAfterWriting ==
    /\ pc = "thrown"
    /\ call.op = "bin_to_json"
    /\ dstate.writer # <<>>
    /\ dest = call.before

C8_OverfullStackStep ==
    (IsReceiveEvent /\ Len(state.stack) > max_stack_size) =>
        pc' = "thrown" /\ error'.what = "recursion limit reached"

\* C8: the work stack of json_to_bin never holds more than max_stack_size + 1
\* frames, and once it holds more than max_stack_size the next event fails
\* with the recursion-limit error: a document nested 129 deep fails.
C8_StackCap ==
    /\ [](Len(state.stack) <= max_stack_size + 1)
    /\ [][C8_OverfullStackStep]_vars

\* The event after the 129th nested start_object was rejected.
C8_Depth129Rejected ==
    /\ pc = "thrown"
    /\ error.what = "recursion limit reached"
    /\ Len(state.stack) = max_stack_size + 1

\* C8 as stated: the stack never holds more than max_stack_size frames.
C8_StackNeverAbove128 == Len(state.stack) <= max_stack_size

\* C9: create_contract fails with the recursion-limit error for every chain
\* of MaxChain aliases, whatever the names of the aliases.
C9_LongChainFails ==
    (cpc # "start" /\ abi \in {ChainAbi(MaxChain, order) : order \in AliasOrders}) =>
        cpc = "failed" /\ error.what = "abi recursion limit reached"

\* A name that has two of the suffixes "?" and "[]" at its end.
IsNestedForm(name) ==
    \E outer \in {suffix_optional, suffix_array} :
        /\ ends_with(name, outer)
        /\ \E inner \in {suffix_optional, suffix_array} :
               ends_with(DropLast(name, Len(outer)), inner)

\* The name without its last suffix.
InnerName(name) ==
    IF ends_with(name, suffix_optional) THEN DropLast(name, 1) ELSE DropLast(name, 2)

\* The names the ABI gives to its aliases and structs.
DeclaredNames ==
    {abi.types[i].new_type_name : i \in DOMAIN abi.types}
    \cup {abi.structs[i].name : i \in DOMAIN abi.structs}

NoNestingInGraph ==
    \A k \in DOMAIN abi_types :
        /\ abi_types[k].optional_of # NULL =>
               /\ abi_types[abi_types[k].optional_of].optional_of = NULL
               /\ abi_types[abi_types[k].optional_of].array_of = NULL
        /\ abi_types[k].array_of # NULL =>
               /\ abi_types[abi_types[k].array_of].optional_of = NULL
               /\ abi_types[abi_types[k].array_of].array_of = NULL

-----------------------------------------------------------------------------
(* C11 *)

IsAlias(node) == node.alias_of_name # <<>>

\* The ABI has an alias of an alias.
HasAliasOfAlias ==
    \E i, j \in DOMAIN abi.types : abi.types[i].type = abi.types[j].new_type_name

\* C11: in a contract create_contract has returned, and after every get_type
\* call on it, alias_of of every alias is set and is not an alias, the type
\* of every field of every struct is not an alias, and the node a get_type
\* call returns is not an alias.
C11_AliasesCollapsed ==
    cpc = "created" =>
        /\ \A k \in DOMAIN abi_types :
               /\ IsAlias(abi_types[k]) =>
                      /\ abi_types[k].alias_of \in DOMAIN abi_types
                      /\ ~IsAlias(abi_types[abi_types[k].alias_of])
               /\ \A i \in DOMAIN abi_types[k].fields :
                      /\ abi_types[k].fields[i].type \in DOMAIN abi_types
                      /\ ~IsAlias(abi_types[abi_types[k].fields[i].type])
        /\ (lookups > 0 /\ ~IsError(looked.err)) =>
               /\ looked.res \in DOMAIN abi_types
               /\ ~IsAlias(abi_types[looked.res])

\* get_type of "zz", an alias of an alias of an alias of uint8, returned uint8.
C11_ChainChased ==
    /\ cpc = "created"
    /\ HasAliasOfAlias
    /\ looked.name = n_zz
    /\ looked.res = n_uint8
    /\ abi_types[n_zz].alias_of = n_uint8

-----------------------------------------------------------------------------
(* C12 *)

\* The struct_def the ABI declares under a name.
DeclaredStruct(name) ==
    abi.structs[CHOOSE i \in DOMAIN abi.structs : abi.structs[i].name = name]

\* The node a type name stands for in the contract.
NodeOf(name) == get_type(abi_types, name, 0).res

\* The fields of the base of a declared struct (of its base, and so on), then
\* the fields the struct declares, in the order of the declaration.
RECURSIVE FlattenedFields(_)
FlattenedFields(name) ==
    LET def == DeclaredStruct(name) IN
    (IF def.base = <<>> THEN <<>> ELSE FlattenedFields(NodeOf(def.base)))
        \o [i \in DOMAIN def.fields |->
               abi_field(def.fields[i].name, NodeOf(def.fields[i].type))]

\* C12: in a contract create_contract has returned every struct of the ABI
\* is filled, and its fields are the flattened fields of its base followed by
\* the fields it declares, whether the loop of create_contract meets the
\* struct before its base or after it.
C12_FieldsFlattened ==
    cpc = "created" =>
        \A i \in DOMAIN abi.structs :
            /\ abi_types[abi.structs[i].name].filled_struct
            /\ abi_types[abi.structs[i].name].fields
                   = FlattenedFields(abi.structs[i].name)

\* B : P : S was filled from B, the first of the three in the map, and has
\* the fields a, r, xs, b once each.
C12_DerivedFilledFirst ==
    /\ cpc = "created"
    /\ n_B \in DOMAIN abi_types
    /\ abi_types[n_B].filled_struct
    /\ [i \in DOMAIN abi_types[n_B].fields |-> abi_types[n_B].fields[i].name]
           = <<n_a, n_r, n_xs, n_b>>

-----------------------------------------------------------------------------
(* C13 *)

\* The names the ABI defines, in the order create_contract inserts them.
DefinedNames ==
    [i \in DOMAIN abi.types |-> abi.types[i].new_type_name]
        \o [i \in DOMAIN abi.structs |-> abi.structs[i].name]

\* The names that are defined when the ABI has defined them before, or when
\* they are the names of built-in types.
Redefined ==
    {DefinedNames[j] : j \in {i \in DOMAIN DefinedNames :
        \/ DefinedNames[i] \in DOMAIN builtin_types
        \/ \E h \in 1..(i - 1) : DefinedNames[h] = DefinedNames[i]}}

\* C13: create_contract fails for every ABI that defines a name twice or
\* defines the name of a built-in type, and tells a name that is redefined.
C13_RedefinitionRejected ==
    (cpc # "start" /\ Redefined # {}) =>
        /\ cpc = "failed"
        /\ error.what = "abi redefines type"
        /\ error.arg \in Redefined

\* An alias named extended_asset was rejected.
C13_ExtendedAssetRedefined ==
    /\ cpc = "failed"
    /\ error.what = "abi redefines type"
    /\ error.arg = n_extended_asset

-----------------------------------------------------------------------------
(* C14 *)

\* What a frame of the work stack adds to the path: "[" index "]" for an
\* array, "." and the name of the field at position for a struct whose
\* position is the index of a field, nothing for a struct whose position is
\* not, and "<?>" for a frame that is neither.
PathOfFrame(entry) ==
    LET type == abi_types[entry.type] IN
    CASE type.array_of # NULL -> <<91>> \o to_string_int(entry.position) \o <<93>>
      [] type.array_of = NULL /\ type.filled_struct
             /\ entry.position \in 0..(Len(type.fields) - 1) ->
             <<46>> \o type.fields[entry.position + 1].name
      [] type.array_of = NULL /\ type.filled_struct
             /\ entry.position \notin 0..(Len(type.fields) - 1) -> <<>>
      [] type.array_of = NULL /\ ~type.filled_struct -> <<60, 63, 62>>

\* The path of a stack, bottom frame first, after the name of the struct of
\* the bottom frame.
RECURSIVE PathOfFrames(_)
PathOfFrames(stack) ==
    IF stack = <<>> THEN <<>>
    ELSE PathOfFrames(PopBack(stack)) \o PathOfFrame(Back(stack))

PathOfStack(stack) ==
    (IF stack # <<>> /\ abi_types[stack[1].type].filled_struct
     THEN abi_types[stack[1].type].name ELSE <<>>)
        \o PathOfFrames(stack)

\* C14: when json_to_bin fails the message is the cause when the work stack
\* is empty, and otherwise the path of the stack, ": " and the cause.  In the
\* path an array that has received no element has the index -1, and the
\* entry of a root type that is no struct and no array (the text failed to
\* parse before its first event) is "<?>".
C14_ErrorPath ==
    (pc = "thrown" /\ call.op = "json_to_bin") =>
        error.path = IF state.stack = <<>> THEN <<>>
                     ELSE PathOfStack(state.stack) \o <<58, 32>>

\* {"b":"hi","a":1} under S {a, b}: the key b failed with the path "S.a".
C14_OutOfOrderPath ==
    /\ pc = "thrown"
    /\ call.type = n_S
    /\ events = <<Event("received_start_object", FALSE, <<>>, <<>>),
                  Event("received_key", FALSE, <<>>, n_b)>>
    /\ error.path = n_S \o <<46>> \o n_a \o <<58, 32>>
    /\ error.what = "expected field"
    /\ error.arg = n_a

\* C14 as stated: every message of a failed json_to_bin has a path and ": "
\* before the cause.
C14_PathBeforeEveryCause ==
    (pc = "thrown" /\ call.op = "json_to_bin") => error.path # <<>>

-----------------------------------------------------------------------------
(* C15 *)

\* What a successful json_to_bin appended to the caller's vector.
Appended == SubSeq(bin, Len(call.before) + 1, Len(bin))

\* A json_to_bin call that succeeded on a single number token.
EncodedNumber ==
    /\ call.op = "json_to_bin"
    /\ pc = "true"
    /\ Len(events) = 1
    /\ events[1].type = "received_string"

\* The value of the token: a token that is accepted has no sign.
TokenMagnitude ==
    CHOOSE magnitude \in Magnitudes : NumberText(FALSE, magnitude) = events[1].value_string

\* One to five bytes, every byte but the last with the top bit set, and a
\* last byte that is zero only for the value 0.
CanonicalVaruint(bytes, n) ==
    /\ Len(bytes) \in 1..5
    /\ \A i \in 1..(Len(bytes) - 1) : bytes[i] >= 128
    /\ bytes[Len(bytes)] < 128
    /\ bytes[Len(bytes)] = 0 => n = <<>> /\ Len(bytes) = 1

\* C15: the bytes json_to_bin appends for a number n below 2^32 under
\* varuint32 are push_varuint32(n): a canonical LEB128 encoding of one to five
\* bytes, from which read_varuint32 gets n back, consuming exactly these bytes
\* whatever follows them; 0xdeadbeef gives ef fd b6 f5 0d.
C15_VaruintRoundTrip ==
    (EncodedNumber /\ call.type = n_varuint32) =>
        /\ Len(TokenMagnitude) <= 4
        /\ Appended = push_varuint32(TokenMagnitude)
        /\ CanonicalVaruint(Appended, TokenMagnitude)
        /\ \A ub \in UndefinedOutcomes, rest \in {<<>>, <<255>>} :
               read_varuint32(Appended \o rest, 0, ub)
                   = [err |-> NoError, value |-> TokenMagnitude, pos |-> Len(Appended)]
        /\ TokenMagnitude = deadbeef => Appended = <<239, 253, 182, 245, 13>>

\* 3735928559 was encoded under varuint32.
C15_DeadbeefEncoded ==
    /\ EncodedNumber
    /\ call.type = n_varuint32
    /\ TokenMagnitude = deadbeef
    /\ Appended = <<239, 253, 182, 245, 13>>

-----------------------------------------------------------------------------
(* C16 *)

\* bin_to_json under varuint32 has returned or thrown.
DecodedVaruint ==
    /\ call.op = "bin_to_json"
    /\ call.type = n_varuint32
    /\ pc # "first"

\* The fifth byte of the input has its continuation bit set, as the four
\* bytes before it.
FifthByteContinues == Len(input) >= 5 /\ \A i \in 1..5 : input[i] >= 128

\* C16: bin_to_json under varuint32 fails on an input whose varuint32 goes
\* on after its fifth byte.
C16_LongVaruintRejected == (DecodedVaruint /\ FifthByteContinues) => pc = "thrown"

-----------------------------------------------------------------------------
(* C17 *)

\* A json_to_bin call under name that succeeded on a string of at most 13
\* characters.
EncodedName ==
    /\ call.op = "json_to_bin"
    /\ call.type = n_name
    /\ pc = "true"
    /\ Len(events) = 1
    /\ events[1].type = "received_string"
    /\ Len(events[1].value_string) <= 13

RECURSIVE TrimDots(_)
TrimDots(s) ==
    IF s # <<>> /\ s[Len(s)] = 46 THEN TrimDots(SubSeq(s, 1, Len(s) - 1)) ELSE s

\* What four bits keep of a 13th character: . 1 2 3 4 5 a .. j stay, and
\* k .. z come back as . 1 2 3 4 5 a .. j.
FourBits(c) ==
    IF c \in 107..122 THEN <<46, 49, 50, 51, 52, 53, 97, 98, 99, 100, 101, 102, 103, 104,
                             105, 106>>[c - 106]
    ELSE c

Thirteenth(s) == IF Len(s) = 13 THEN [s EXCEPT ![13] = FourBits(s[13])] ELSE s

\* name_to_string's result for a name that is 0
ThirteenDots == [i \in 1..13 |-> 46]

\* C17 (amended): for a string s of at most 13 characters of the alphabet,
\* name_to_string(string_to_name(s)) is s with its 13th character, if it has
\* one, reduced to four bits (k..z come back as .12345abcdefghij) and with
\* the trailing dots removed; when nothing but dots is left it is 13 dots.
C17_NameStringBack ==
    EncodedName =>
        LET s == events[1].value_string IN
        /\ Appended = string_to_name(s)
        /\ name_to_string(Appended)
               = IF TrimDots(Thirteenth(s)) = <<>> THEN ThirteenDots
                 ELSE TrimDots(Thirteenth(s))

\* A 13-character name with dots inside and a 13th character of four bits
\* came back as it was.
C17_ThirteenCharactersBack ==
    /\ EncodedName
    /\ events[1].value_string = [i \in 1..11 |-> 97] \o <<46, 106>>
    /\ name_to_string(Appended) = events[1].value_string

\* C17 as stated: name_to_string(string_to_name(s)) is s with its trailing
\* dots removed, for every s of at most 13 characters of the alphabet.
C17_TrimmedStringBack ==
    EncodedName => name_to_string(Appended) = TrimDots(events[1].value_string)

-----------------------------------------------------------------------------
(* C18 *)

\* bin_to_json under name decoded a uint64_t.
DecodedName ==
    /\ call.op = "bin_to_json"
    /\ call.type = n_name
    /\ pc = "true"

\* "eosio.tqq4hu4"
s_eosio_tqq4hu4 == <<101, 111, 115, 105, 111, 46, 116, 113, 113, 52, 104, 117, 52>>

\* Decoding the eight bytes of a name and encoding the text again gives the
\* eight bytes.
NameValueBack ==
    DecodedName =>
        /\ Len(dest) = 1 /\ dest[1].token = "string"
        /\ string_to_name(dest[1].text) = input
        /\ json_to_bin(abi_types, <<>>, call.type, WrittenEvents)
               = [ok |-> TRUE, bin |-> input]

\* C18 (amended): bin_to_json under name writes one string for the eight
\* bytes of the input, and json_to_bin of that text under name gives the same
\* eight bytes back; "eosio.token" is the name 0x5530EA033482A600 and that
\* value is written as "eosio.token", while 0x5530EA0336B11BA4 is written as
\* "eosio.tqq4hu4".
C18_NameValueBack ==
    /\ NameValueBack
    /\ (EncodedName /\ events[1].value_string = s_eosio_token)
           => Appended = word_5530EA033482A600
    /\ (DecodedName /\ input = word_5530EA033482A600)
           => dest = <<Token("string", s_eosio_token)>>
    /\ (DecodedName /\ input = word_5530EA0336B11BA4)
           => dest = <<Token("string", s_eosio_tqq4hu4)>>

\* The bytes of 0x5530EA033482A600 were decoded to "eosio.token".
C18_EosioTokenDecoded ==
    /\ DecodedName
    /\ input = word_5530EA033482A600
    /\ dest = <<Token("string", s_eosio_token)>>

\* C18 as stated: the round trip, with "eosio.token" encoded as
\* 0x5530EA0336B11BA4 and that value decoded to "eosio.token".
C18_EosioTokenIs5530EA0336B11BA4 ==
    /\ NameValueBack
    /\ (EncodedName /\ events[1].value_string = s_eosio_token)
           => Appended = word_5530EA0336B11BA4
    /\ (DecodedName /\ input = word_5530EA0336B11BA4)
           => dest = <<Token("string", s_eosio_token)>>

-----------------------------------------------------------------------------
(* C19 *)

\* The integral type of the call.
T == NumberTypes[abi_types[call.type].ser]

\* json_to_bin under one of int8 .. uint64 has handled its first event.
NumberHandled ==
    /\ call.op = "json_to_bin"
    /\ abi_types[call.type].ser \in DOMAIN NumberTypes
    /\ ~T.is_bool
    /\ Len(events) = 1

\* The sign and the magnitude of the token.
TokenOf(text) ==
    CHOOSE n \in [negative : BOOLEAN, magnitude : Magnitudes] :
        NumberText(n.negative, n.magnitude) = text

\* The value is in the range of a type of size bytes.
InRange(signed, size, n) ==
    IF signed
    THEN \/ Len(n.magnitude) < size
         \/ /\ Len(n.magnitude) = size
            /\ \/ n.magnitude[size] < 128
               \/ /\ n.negative
                  /\ n.magnitude = [i \in 1..size |-> IF i = size THEN 128 ELSE 0]
    ELSE (~n.negative \/ n.magnitude = <<>>) /\ Len(n.magnitude) <= size

\* The little-endian bytes of the value in size bytes.
LittleEndian(size, n) ==
    IF n.negative /\ n.magnitude # <<>> THEN Negate(Pad(n.magnitude, size))
    ELSE Pad(n.magnitude, size)

\* The serializer returned true: reader.Parse goes on, and json_to_bin ends
\* with true or, for a text that is not JSON after the token, with "failed
\* to parse".
HandlerReturned == pc \in {"parse", "true"} \/ error.what = "failed to parse"

\* What json_to_bin does with a number token n under T.
NumberOutcome(n) ==
    IF InRange(T.signed, T.size, n) /\ (T.signed \/ ~n.negative)
    THEN /\ HandlerReturned
         /\ state.bin = LittleEndian(T.size, n)
         /\ pc = "true" => Appended = LittleEndian(T.size, n)
    ELSE /\ pc = "thrown"
         /\ bin = call.before
         /\ error.path = <<>>
         /\ error.what
                = IF ~T.signed /\ n.negative THEN "expected non-negative number"
                  ELSE IF ~InRange(T.signed, 8, n)
                  THEN "number is out of range or has bad format"
                  ELSE "number is out of range"

\* C19 (amended): under int8 .. uint64 a decimal token is accepted iff its
\* value is in the range of the type and, for an unsigned type, it has no
\* minus sign (so -0 is rejected); json_to_bin then appends the little-endian
\* bytes of the value to the caller's vector.  Otherwise it throws and leaves
\* the vector alone: "expected non-negative number" for a minus sign under an
\* unsigned type, "number is out of range or has bad format" for a value
\* outside the 64-bit type of the same signedness, "number is out of range"
\* for the others.  A JSON bool is encoded as 1 or 0 in the size of the type.
C19_RangeChecked ==
    NumberHandled =>
        /\ events[1].type = "received_string"
               => NumberOutcome(TokenOf(events[1].value_string))
        /\ events[1].type = "received_bool"
               => /\ HandlerReturned
                  /\ state.bin = Pad(IF events[1].value_bool THEN <<1>> ELSE <<>>, T.size)

\* -128 was encoded under int8.
C19_MinimumEncoded ==
    /\ NumberHandled
    /\ T = NumberTypes.int8
    /\ events[1].value_string = <<45, 49, 50, 56>>
    /\ pc = "true"
    /\ Appended = <<128>>

\* C19 as stated: the token is accepted iff its value is in the range of the
\* type.
C19_AcceptedIffInRange ==
    (NumberHandled /\ events[1].type = "received_string") =>
        (InRange(T.signed, T.size, TokenOf(events[1].value_string)) <=> HandlerReturned)

-----------------------------------------------------------------------------
(* C20 *)

\* bin_to_json under an integral type has decoded its input.
DecodedNumber ==
    /\ call.op = "bin_to_json"
    /\ abi_types[call.type].ser \in DOMAIN NumberTypes
    /\ pc = "true"

\* 18446744073709551615
s_uint64_max ==
    <<49, 56, 52, 52, 54, 55, 52, 52, 48, 55, 51, 55, 48, 57, 53, 53, 49, 54, 49, 53>>

\* The value a decimal text denotes, as sign and magnitude.
TextValue(text) ==
    IF text # <<>> /\ text[1] = 45
    THEN [negative |-> TRUE, magnitude |-> DecValue(Tail(text), <<>>)]
    ELSE [negative |-> FALSE, magnitude |-> DecValue(text, <<>>)]

\* C20: bin_to_json writes one token: true or false under bool (false for
\* the byte 0, true for the byte 1), a string
\* under int64 and uint64 and a number under the smaller types, whose text is
\* the decimal value of the input's little-endian bytes; eight ff bytes under
\* uint64 give the string "18446744073709551615", and json_to_bin of that
\* token under uint64 gives eight ff bytes.
C20_TokenOfValue ==
    /\ DecodedNumber =>
        /\ Len(dest) = 1
        /\ dest[1].token \in IF T.is_bool
                              THEN (IF input = <<0>> THEN {"false"}
                                    ELSE IF input = <<1>> THEN {"true"}
                                    ELSE {"false", "true"})
                              ELSE IF T.size = 8 THEN {"string"} ELSE {"number"}
        /\ ~T.is_bool =>
               /\ input = LittleEndian(T.size, TextValue(dest[1].text))
               /\ \A i \in DOMAIN dest[1].text :
                      IsDigit(dest[1].text[i]) \/ (i = 1 /\ dest[1].text[i] = 45)
        /\ (call.type = n_uint64 /\ input = [i \in 1..8 |-> 255])
               => dest[1].text = s_uint64_max
    /\ (NumberHandled /\ call.type = n_uint64 /\ pc = "true"
            /\ events[1].value_string = s_uint64_max)
           => Appended = [i \in 1..8 |-> 255]

\* Eight ff bytes were decoded under uint64.
C20_Uint64MaxDecoded ==
    /\ DecodedNumber
    /\ call.type = n_uint64
    /\ input = [i \in 1..8 |-> 255]
    /\ dest = <<Token("string", s_uint64_max)>>

-----------------------------------------------------------------------------
(* C21 *)

\* json_to_bin under int128 has handled a decimal token.
WideHandled ==
    /\ call.op = "json_to_bin"
    /\ call.type = n_int128
    /\ Len(events) = 1
    /\ events[1].type = "received_string"
    /\ \E n \in [negative : BOOLEAN, magnitude : WideMagnitudes] :
           NumberText(n.negative, n.magnitude) = events[1].value_string

WideToken ==
    CHOOSE n \in [negative : BOOLEAN, magnitude : WideMagnitudes] :
        NumberText(n.negative, n.magnitude) = events[1].value_string

\* -170141183460469231731687303715884105728
s_int128_min ==
    <<45, 49, 55, 48, 49, 52, 49, 49, 56, 51, 52, 54, 48, 52, 54, 57, 50, 51, 49, 55, 51,
      49, 54, 56, 55, 51, 48, 51, 55, 49, 53, 56, 56, 52, 49, 48, 53, 55, 50, 56>>

-----------------------------------------------------------------------------
(* C22 *)

\* The int32_t of the accepted token, as its memory image.
TokenInt32 == LittleEndian(4, TokenOf(events[1].value_string))

\* (n << 1) ^ (n >> 31) modulo 2^32 by arithmetic: 2n for n >= 0 and
\* 2|n| - 1 for n < 0.
ZigZag(n) ==
    LET twice(magnitude) == SubSeq(Pad(MulAdd(magnitude, 2, 0), 4), 1, 4)
    IN  IF n.negative /\ n.magnitude # <<>>
        THEN Negate(AddOne(Negate(twice(n.magnitude))))
        ELSE twice(n.magnitude)

\* C22: what json_to_bin appends for an int32 n under varint32 is the
\* varuint32 of the zig-zag image of n, and read_varint32 gets n back from
\* these bytes, consuming exactly them; bin_to_json under varint32 followed by
\* json_to_bin of the text gives the input's bytes.
C22_ZigZagRoundTrip ==
    /\ (EncodedNumber /\ call.type = n_varint32) =>
        \A ub \in UndefinedOutcomes :
            /\ read_varuint32(Appended, 0, ub).value
                   = Trim(ZigZag(TokenOf(events[1].value_string)))
            /\ read_varint32(Appended, 0, ub)
                   = [err |-> NoError, value |-> TokenInt32, pos |-> Len(Appended)]
    /\ (call.op = "bin_to_json" /\ call.type = n_varint32 /\ pc = "true") =>
        json_to_bin(abi_types, <<>>, call.type, WrittenEvents) = [ok |-> TRUE, bin |-> input]

\* -2147483648 was encoded under varint32 as ff ff ff ff 0f.
C22_MinimumEncoded ==
    /\ EncodedNumber
    /\ call.type = n_varint32
    /\ events[1].value_string = <<45, 50, 49, 52, 55, 52, 56, 51, 54, 52, 56>>
    /\ Appended = <<255, 255, 255, 255, 15>>

-----------------------------------------------------------------------------
(* C23 *)

\* bin_to_json has returned or thrown.
DecodeEnded == call.op = "bin_to_json" /\ pc \in {"true", "false", "thrown"}

Ended(what, pos) == [what |-> what, pos |-> pos]

\* Where the varuint32 at pos ends: the offset after its last byte, or -1
\* when the input ends before a byte without the top bit.
RECURSIVE VaruintEnd(_, _)
VaruintEnd(bytes, pos) ==
    IF pos >= Len(bytes) THEN -1
    ELSE IF bytes[pos + 1] < 128 THEN pos + 1
    ELSE VaruintEnd(bytes, pos + 1)

\* The wire format read from pos on for the types of todo, one after the
\* other: where the values end, or where and how the input falls short.  A
\* fixed-width leaf, a tag and a varuint32 that the input cuts short give
\* "read past end"; a payload shorter than its length gives "invalid string
\* size" or "invalid bytes size".  Every element of the model's arrays takes a
\* byte at least, so that a count beyond the rest of the input always falls
\* short.
RECURSIVE Required(_, _, _, _, _)
Required(types, todo, bytes, pos, ub) ==
    IF todo = <<>> THEN Ended("", pos)
    ELSE LET t == types[Head(todo)]
             rest == Tail(todo)
             left == Len(bytes) - pos
             fixed(size) ==
                 IF left < size THEN Ended("read past end", pos)
                 ELSE Required(types, rest, bytes, pos + size, ub)
             payload(end, size, what) ==
                 IF end = -1 THEN Ended("read past end", Len(bytes))
                 ELSE IF Exceeds(size, Len(bytes) - end) THEN Ended(what, end)
                 ELSE Required(types, rest, bytes, end + IntOf(size, Len(bytes) - end), ub)
             elements(end, size) ==
                 IF end = -1 THEN Ended("read past end", Len(bytes))
                 ELSE Required(types,
                               [i \in 1..(IF Exceeds(size, Len(bytes) - end)
                                          THEN Len(bytes) - end + 1
                                          ELSE IntOf(size, Len(bytes) - end)) |-> t.array_of]
                                   \o rest,
                               bytes, end, ub)
         IN  CASE IsArithmetic(t.ser) -> fixed(NumberTypes[t.ser].size)
               [] t.ser = "string" ->
                      payload(VaruintEnd(bytes, pos), read_varuint32(bytes, pos, ub).value,
                              "invalid string size")
               [] t.ser = "bytes" ->
                      payload(VaruintEnd(bytes, pos), read_varuint32(bytes, pos, ub).value,
                              "invalid bytes size")
               [] t.ser = "pseudo_optional" ->
                      IF left < 1 THEN Ended("read past end", pos)
                      ELSE Required(types,
                                    IF bytes[pos + 1] # 0 THEN <<t.optional_of>> \o rest
                                    ELSE rest,
                                    bytes, pos + 1, ub)
               [] t.ser = "pseudo_array" ->
                      elements(VaruintEnd(bytes, pos), read_varuint32(bytes, pos, ub).value)
               [] t.ser = "pseudo_object" ->
                      Required(types, [i \in DOMAIN t.fields |-> t.fields[i].type] \o rest,
                               bytes, pos, ub)

\* C23 (amended): bin_to_json on a buffer that ends before all bytes the type
\* requires fails: with "read past end" when the buffer ends inside a
\* fixed-width leaf, an optional's tag or a varuint32 (an array count, the
\* length of a string or of bytes), with "invalid string size" or "invalid
\* bytes size" when it holds fewer bytes than the length of a string or of
\* bytes announces.  It succeeds on a buffer that holds a whole value, and
\* the read position is never beyond the end of the input.
C23_ShortInputFails ==
    /\ call.op = "bin_to_json" => dstate.pos <= Len(input)
    /\ DecodeEnded =>
           \E ub \in UndefinedOutcomes :
               LET ended(r) ==
                       /\ dstate.pos = r.pos
                       /\ IF r.what = "" THEN pc = "true"
                          ELSE pc = "thrown" /\ error.what = r.what
               IN  ended(Required(abi_types, <<call.type>>, input, 0, ub))

\* uint8[] with a count of 2 and one element fails at the end of the input.
C23_ArrayCutShort ==
    /\ DecodeEnded
    /\ call.type = n_uint8 \o suffix_array
    /\ input = <<2, 1>>
    /\ pc = "thrown"
    /\ error.what = "read past end"
    /\ dstate.pos = 2

\* C23 as stated: a buffer that ends before all bytes the type requires
\* fails with "read past end".
C23_ReadPastEnd ==
    DecodeEnded =>
        \E ub \in UndefinedOutcomes :
            Required(abi_types, <<call.type>>, input, 0, ub).what # ""
                => pc = "thrown" /\ error.what = "read past end"

-----------------------------------------------------------------------------
(* C24 *)

\* bin_to_json returned true.
Decoded == call.op = "bin_to_json" /\ pc = "true"

\* C24: when bin_to_json returns true the position of the buffer is where the
\* value of the type ends in the wire format, whatever follows it, and the
\* JSON written is the JSON of the bytes before that position alone.
C24_TrailingBytesLeft ==
    Decoded =>
        \E ub \in UndefinedOutcomes :
            /\ Required(abi_types, <<call.type>>, input, 0, ub) = Ended("", dstate.pos)
            /\ bin_to_json(abi_types, SubSeq(input, 1, dstate.pos), call.type, ub)
                   = [pc |-> "true", what |-> "",
                      st |-> [pos |-> dstate.pos, stack |-> <<>>, writer |-> dest]]

\* uint8[] with one element and a further byte: [2] is written and the
\* position is at the further byte.
C24_FurtherByteLeft ==
    /\ Decoded
    /\ call.type = n_uint8 \o suffix_array
    /\ input = <<1, 2, 128>>
    /\ dstate.pos = 2
    /\ dest = <<Token("[", <<>>), Token("number", <<50>>), Token("]", <<>>)>>

-----------------------------------------------------------------------------
(* C25 *)

\* The frame of the object the last event was a key of, before and after it.
KeyReceived ==
    /\ call.op = "json_to_native"
    /\ pc = "parse"
    /\ events' # events
    /\ Back(events').type = "received_key"
    /\ reader.expect = "member"

DeclaredFields == native_field_serializers_for(Back(state.stack).ser)

DeclaredAt(key) == {i \in DOMAIN DeclaredFields : DeclaredFields[i].name = key}

\* C25: a key of an object that is a declared field of the aggregate is
\* accepted wherever it comes and selects that field for the value that
\* follows; a key that is no declared field ends the load with the
\* exception "unknown field " and the key; an event after the end of the
\* top-level object ends it with "extra data".
C25_KeysMatchedByName ==
    [][/\ KeyReceived =>
            LET key == Back(events').key IN
            IF DeclaredAt(key) # {}
            THEN /\ pc' = "parse"
                 /\ DeclaredFields[Back(state'.stack).position + 1].name = key
                 /\ state'.root = state.root
            ELSE /\ pc' = "thrown"
                 /\ error'.what = "unknown field "
                 /\ error'.arg = key
       /\ (call.op = "json_to_native" /\ pc = "parse" /\ reader.expect = "eof"
             /\ events' # events)
            => pc' = "thrown" /\ error'.what = "extra data"
       /\ (call.op = "json_to_native" /\ pc = "parse" /\ events' # events
             /\ Back(events').type = "received_string" /\ pc' = "parse"
             /\ reader.expect = "value" /\ reader.ctx # <<>> /\ is_class(Back(state.stack).ser))
            => Pointee(state'.root, Back(state.stack).obj)
                   = [Pointee(state.root, Back(state.stack).obj) EXCEPT
                         ![CHOOSE i \in DOMAIN DeclaredFields :
                              DeclaredFields[i].name = events[Len(events)].key]
                            = Back(events').value_string]]_vars

\* {"type": "hi", "new_type_name": ""}: the fields in the other order.
C25_FieldsInOtherOrder ==
    /\ call = [op |-> "json_to_native", type |-> "type_def", before |-> <<>>]
    /\ pc = "true"
    /\ events = <<Event("received_start_object", FALSE, <<>>, <<>>),
                  Event("received_key", FALSE, <<>>, n_type),
                  Event("received_string", FALSE, s_hi, <<>>),
                  Event("received_key", FALSE, <<>>, n_new_type_name),
                  Event("received_string", FALSE, <<>>, <<>>),
                  Event("received_end_object", FALSE, <<>>, <<>>)>>
    /\ state.root = <<<<>>, s_hi>>

-----------------------------------------------------------------------------
(* C26 *)

DecodeRuns == call.op = "bin_to_json" /\ pc \in {"first", "loop"}

\* C26: bin_to_json under a struct that contains itself ends, and ends with
\* the exception "read past end" or "recursion limit reached"; its stack
\* holds at most max_stack_size + 1 frames, and the frame above
\* max_stack_size is the one that ends it with "recursion limit reached".
C26_DecoderCapped ==
    /\ [](/\ Len(dstate.stack) <= max_stack_size + 1
          /\ Len(dstate.stack) > max_stack_size
                <=> (pc = "thrown" /\ error.what = "recursion limit reached")
          /\ ~DecodeRuns
                => /\ pc = "thrown"
                   /\ error.what \in {"read past end", "recursion limit reached"}
                   /\ dest = call.before)
    /\ <>(~DecodeRuns)

\* struct B { a: uint8, b: P }, struct P { xs: B } on 64 bytes: the limit is
\* reached before the input ends.
C26_LimitBeforeEnd ==
    /\ call.op = "bin_to_json"
    /\ call.type = n_B
    /\ Len(input) = 64
    /\ pc = "thrown"
    /\ error.what = "recursion limit reached"
    /\ Len(dstate.stack) = max_stack_size + 1
    /\ dstate.pos = 64

-----------------------------------------------------------------------------
(* C27 *)

\* What a name is defined from in an ABI: the target of the alias, the base
\* of the struct; nothing for another name.
DefinedFrom(a, name) ==
    IF \E i \in DOMAIN a.types : a.types[i].new_type_name = name
    THEN a.types[CHOOSE i \in DOMAIN a.types : a.types[i].new_type_name = name].type
    ELSE IF \E i \in DOMAIN a.structs : a.structs[i].name = name
    THEN a.structs[CHOOSE i \in DOMAIN a.structs : a.structs[i].name = name].base
    ELSE <<>>

\* Following aliases, "?" and bases from a name ends within n steps.
RECURSIVE Founded(_, _, _)
Founded(a, name, n) ==
    \/ name = <<>>
    \/ /\ n > 0
       /\ Founded(a, IF DefinedFrom(a, name) = <<>> /\ ends_with(name, suffix_optional)
                     THEN DropLast(name, 1) ELSE DefinedFrom(a, name), n - 1)

\* The aliases and structs of an ABI that lie on a cycle or lead into one.
Unfounded(a) ==
    {name \in {a.types[i].new_type_name : i \in DOMAIN a.types}
              \cup {a.structs[i].name : i \in DOMAIN a.structs} :
        ~Founded(a, name, Len(a.types) + Len(a.structs) + 1)}

\* The map create_contract has built when it returns or throws.
LoadedTypes == create_contract(abi).types

-----------------------------------------------------------------------------
(* C28 *)

\* The frames of the stack that are arrays.
ArrayFrames ==
    {k \in DOMAIN state.stack : abi_types[state.stack[k].type].array_of # NULL}

\* C28: after every event of json_to_bin the size insertions lie at offsets
\* that do not decrease and are not beyond the end of state.bin; every array
\* on the stack has an insertion of its own, the one made when it was
\* opened, which lies at or after those of the arrays below it and has no
\* size yet; so every range the final loop copies starts at or before its end.
C28_InsertionsOrdered ==
    (call.op = "json_to_bin" /\ events # <<>>) =>
        LET ins == state.size_insertions IN
        /\ \A i, j \in DOMAIN ins : i < j => ins[i].position <= ins[j].position
        /\ \A i \in DOMAIN ins : ins[i].position <= Len(state.bin)
        /\ \A k \in ArrayFrames :
            /\ state.stack[k].size_insertion_index + 1 \in DOMAIN ins
            /\ ins[state.stack[k].size_insertion_index + 1].size = 0
            /\ \A l \in ArrayFrames :
                   k < l => state.stack[k].size_insertion_index
                                < state.stack[l].size_insertion_index
        /\ Cardinality(ArrayFrames) <= Len(ins)
        /\ Len(ins) <= Cardinality({e \in DOMAIN events :
                                       events[e].type = "received_start_array"})

\* [{"xs":[1 under P[]: two arrays are open, each with its insertion, and a
\* byte has been written after both.
C28_TwoArraysOpen ==
    /\ call.op = "json_to_bin"
    /\ pc = "parse"
    /\ Len(state.size_insertions) = 2
    /\ Cardinality(ArrayFrames) = 2
    /\ state.bin = <<1>>

-----------------------------------------------------------------------------
(* C29 *)

\* The nodes a codec call can come to: the fields of the structs, the
\* inner types of the optionals and arrays, and what get_type returned.
ReachedTypes ==
    UNION {{abi_types[k].fields[i].type : i \in DOMAIN abi_types[k].fields}
           \cup ({abi_types[k].optional_of, abi_types[k].array_of} \ {NULL}) :
              k \in DOMAIN abi_types}
    \cup ({looked.res} \ {NULL})

\* C29: after create_contract has returned, every node that is the type of a
\* field, the inner type of an optional or an array, or the result of
\* get_type has a serializer.
C29_EveryTypeHasSer ==
    cpc = "created" => \A t \in ReachedTypes : abi_types[t].ser # NoSer

-----------------------------------------------------------------------------
(* C30 *)

\* C30: bin_to_native of a std::string succeeds exactly when read_string on
\* the same buffer does, with the same string and the same position, and
\* throws what read_string throws otherwise.
C30_SameAsReadString ==
    (call.op = "bin_to_native" /\ pc # "first") =>
        \E ub \in UndefinedOutcomes :
            LET same(r) ==
                    /\ pc = "true" <=> ~IsError(r.err)
                    /\ error.what = r.err.what
                    /\ state.pos = r.pos
                    /\ state.root = r.bytes
            IN  same(read_string(input, 0, ub))
====
